---------------------------- MODULE Spec2Model ----------------------------
(***************************************************************************)
(* Verification model of the pageserver ingestion path and compaction      *)
(* engine: EphemeralFile, InMemoryLayer, GlobalResources, L0->L1           *)
(* compaction and the per-key retention of GC-compaction.                  *)
(*                                                                         *)
(* The module holds several specifications over one set of variables.      *)
(* Each specification constrains the variables of its own component and    *)
(* leaves the others at their initial value.                               *)
(*   Spec       InMemoryLayer write path: put_batch, freeze, tick          *)
(*   SpecFlush  InMemoryLayer put_batch, freeze, write_to_disk             *)
(*   SpecRead   InMemoryLayer put_batch, get_values_reconstruct_data       *)
(*   SpecL0     Timeline::compact_level0_phase1                            *)
(*   SpecGc     Timeline::generate_key_retention, then pipe_to             *)
(*   SpecRes    GlobalResourceUnits of several layers, step by step        *)
(*   SpecConc   put_batch and freeze running concurrently on one layer     *)
(*   SpecGcc    Timeline::compact_with_gc on the layers of a timeline      *)
(*   SpecGate   EphemeralFile::create and drop under a Gate that closes    *)
(*   SpecBlob   write_blob, write_raw and read_blob on one EphemeralFile   *)
(***************************************************************************)
EXTENDS Integers, Sequences, FiniteSets, TLC

VARIABLES
    start_lsn,      \* InMemoryLayer.start_lsn
    end_lsn,        \* InMemoryLayer.end_lsn: << >> is an unset OnceLock, <<E>> a set one
    file,           \* InMemoryLayerInner.file: the bytes written to the EphemeralFile
    index,          \* InMemoryLayerInner.index: key -> VecMap, a sequence of <<lsn, offset>>
    ru_dirty_bytes, \* InMemoryLayerInner.resource_units.dirty_bytes
    g_dirty_bytes,  \* GLOBAL_RESOURCES.dirty_bytes
    g_dirty_layers, \* GLOBAL_RESOURCES.dirty_layers
    g_max_dirty_bytes, \* GLOBAL_RESOURCES.max_dirty_bytes
    result,         \* what the last call returned to its caller
    batched,        \* history: <<key, lsn>> -> the value, base offset and relative
                    \* offset of the last index update for that key and LSN
    nvalues         \* history: number of values handed to put_batch so far

layer_vars == <<start_lsn, end_lsn, file, index, ru_dirty_bytes, g_dirty_bytes,
                g_dirty_layers, g_max_dirty_bytes, result, batched, nvalues>>

VARIABLES
    l0_layers,      \* the L0 delta layers of the LayerMap, in the order it lists them
    l0_conf,        \* tenant configuration, shard identity and image coverage
    l0,             \* compact_level0_phase1: its local variables and its position
    l0_result,      \* what compact_level0_phase1 returned
    cancel,         \* Timeline.cancel: the cancellation token
    rwlock          \* Timeline.layers: the guard compaction holds on the lock
                    \* of the LayerManager, and the layer I/O it has started
                    \* together with the guard it held at that time

l0_vars == <<l0_layers, l0_conf, l0, l0_result, cancel, rwlock>>

VARIABLES
    gc_in,          \* the arguments of one generate_key_retention call
    gc_out,         \* what generate_key_retention returned
    gc_written      \* what pipe_to put into the delta and the image writer

gc_vars == <<gc_in, gc_out, gc_written>>

VARIABLES
    units           \* the GlobalResourceUnits of several layers: per handle its
                    \* position, the length of the layer's file, its dirty_bytes
                    \* and the locals of the publish_size call it is in

VARIABLES
    gate,           \* the Gate: "open", "closing" (close is awaiting) or "closed"
    files,          \* per EphemeralFile slot: where its GateGuard is
    next_filename   \* NEXT_FILENAME of EphemeralFile::create

gate_vars == <<gate, files, next_filename>>

VARIABLES
    ef_file,        \* the bytes written to one EphemeralFile
    ef_log,         \* the write calls made on it, with what each returned
    ef_read         \* the last read_blob made on it

blob_vars == <<ef_file, ef_log, ef_read>>

VARIABLES
    conc            \* concurrent calls on the layer: the put_batch suspended in
                    \* its file write and the freeze waiting for the write lock

VARIABLES
    lm              \* the timeline that compact_level0 works on: the layers of its
                    \* LayerMap, the scheduled remote updates, what the call returned

VARIABLES
    tl,             \* the timeline that compact_with_gc works on: the layers of
                    \* its LayerMap, generation, GC info, gc_lock, remote updates
    gcc             \* the locals of one compact_with_gc call and what it returned

gcc_vars == <<tl, gcc>>

VARIABLES
    semaphore,      \* the permits that the flush semaphore has available
    flushes         \* per write_to_disk call: where it is and what it returned

flush_vars == <<semaphore, flushes>>

VARIABLES
    sa              \* the timeline that compact_shard_ancestors works on (its
                    \* LayerMap, shard count, generation, GC cutoff) and the
                    \* locals of one call with what it returned

VARIABLES
    names           \* NEXT_FILENAME of EphemeralFile::create as a 64-bit value
                    \* (four 16-bit limbs, most significant first), the file
                    \* name that the last create call made, and the calls made

VARIABLES
    jwk             \* one JwkCacheEntryLock: the permits of its lookup
                    \* semaphore, its cached entry, and the check_jwt calls and
                    \* background renewals that work on it

\* the variables the operations of one component leave alone
non_layer_vars == <<l0_vars, gc_vars, units, gate_vars, blob_vars, conc, lm, gcc_vars,
                    flush_vars, sa, names, jwk>>
non_l0_vars == <<layer_vars, gc_vars, units, gate_vars, blob_vars, conc, gcc_vars,
                 flush_vars, sa, names, jwk>>
non_gc_vars == <<layer_vars, l0_vars, units, gate_vars, blob_vars, conc, lm, gcc_vars,
                 flush_vars, sa, names, jwk>>
non_res_vars == <<start_lsn, end_lsn, file, index, ru_dirty_bytes, g_max_dirty_bytes,
                  result, batched, nvalues, l0_vars, gc_vars, gate_vars, blob_vars, conc, lm, gcc_vars, flush_vars, sa, names, jwk>>
non_gate_vars == <<layer_vars, l0_vars, gc_vars, units, blob_vars, conc, lm, gcc_vars,
                   flush_vars, sa, names, jwk>>
non_blob_vars == <<layer_vars, l0_vars, gc_vars, units, gate_vars, conc, lm, gcc_vars,
                   flush_vars, sa, names, jwk>>
non_conc_vars == <<l0_vars, gc_vars, units, gate_vars, blob_vars, lm, gcc_vars,
                   flush_vars, sa, names, jwk>>

non_gcc_vars == <<layer_vars, l0_vars, gc_vars, units, gate_vars, blob_vars, conc, lm,
                  flush_vars, sa, names, jwk>>

non_flush_vars == <<layer_vars, l0_vars, gc_vars, units, gate_vars, blob_vars, conc, lm,
                    gcc_vars, sa, names, jwk>>

non_sa_vars == <<layer_vars, l0_vars, gc_vars, units, gate_vars, blob_vars, conc, lm,
                 gcc_vars, flush_vars, names, jwk>>

non_names_vars == <<layer_vars, l0_vars, gc_vars, units, gate_vars, blob_vars, conc, lm,
                    gcc_vars, flush_vars, sa, jwk>>

non_jwk_vars == <<layer_vars, l0_vars, gc_vars, units, gate_vars, blob_vars, conc, lm,
                  gcc_vars, flush_vars, sa, names>>

vars == <<layer_vars, l0_vars, gc_vars, units, gate_vars, blob_vars, conc, lm,
          gcc_vars, flush_vars, sa, names, jwk>>

-----------------------------------------------------------------------------
(* Bounds of the model *)

\* LSNs of the batched values are drawn from 1..MaxLsn
MaxLsn == 2
\* the layer is created with this start_lsn
StartLsn == 1
\* put_batch is not offered once this many values have been handed over
MaxEntries == 2

\* concurrent write_to_disk calls, each on a layer of its own, and the
\* permits of the flush semaphore
MaxFlushes == 3
FlushPermits == 2

Keys == {1, 2}
Lsns == 1..MaxLsn
BatchLens == {1, 2}

-----------------------------------------------------------------------------
(* Program constants *)

PAGE_SZ == 4096
MAX_SIZE_DRIFT == 10 * 1024 * 1024
\* GLOBAL_RESOURCES.max_dirty_bytes is 0 (unlimited) until configured
KeyMin == 0
KeyMax == 1000

-----------------------------------------------------------------------------
(* Sequences *)

Range(s) == {s[i] : i \in 1..Len(s)}

Last(s) == s[Len(s)]

Front(s) == SubSeq(s, 1, Len(s) - 1)

Reverse(s) == [i \in 1..Len(s) |-> s[Len(s) + 1 - i]]

RECURSIVE SeqsOfLen(_, _)
SeqsOfLen(S, n) ==
    IF n = 0 THEN {<< >>}
    ELSE {Append(s, x) : s \in SeqsOfLen(S, n - 1), x \in S}

RECURSIVE SortedSeq(_)
\* the elements of a finite set of integers in ascending order
SortedSeq(S) ==
    IF S = {} THEN << >>
    ELSE LET m == CHOOSE x \in S : \A y \in S : x <= y
         IN <<m>> \o SortedSeq(S \ {m})

RECURSIVE Concat(_)
Concat(ss) == IF ss = << >> THEN << >> ELSE Head(ss) \o Concat(Tail(ss))

-----------------------------------------------------------------------------
(* Value and its serialization *)

Image(img) == [tag |-> "Image", will_init |-> TRUE, data |-> img]

WalRecord(rec, init) == [tag |-> "WalRecord", will_init |-> init, data |-> rec]

\* Value::ser: a tag byte, for a record its will_init flag, then the payload
Ser(v) ==
    IF v.tag = "Image" THEN <<0>> \o v.data
    ELSE <<1, IF v.will_init THEN 1 ELSE 0>> \o v.data

\* Value::des: [ok |-> FALSE] is a deserialization error
Des(buf) ==
    IF Len(buf) >= 1 /\ buf[1] = 0
    THEN [ok |-> TRUE, val |-> Image(Tail(buf))]
    ELSE IF Len(buf) >= 2 /\ buf[1] = 1 /\ buf[2] \in {0, 1}
    THEN [ok |-> TRUE, val |-> WalRecord(SubSeq(buf, 3, Len(buf)), buf[2] = 1)]
    ELSE [ok |-> FALSE]

LongImage == Image([i \in 1..130 |-> (3 * i) % 256])

\* an image whose serialized size needs the four byte length header, and a
\* record that needs a base image and gets the one byte header
Values == {LongImage, WalRecord(<<9>>, FALSE)}

-----------------------------------------------------------------------------
(* Blob length header and blob reads *)

\* SerializedBatch::write_blob_length: one byte below 0x80, else four
\* big-endian bytes with the top bit of the first one set
write_blob_length(len) ==
    IF len < 128 THEN <<len>>
    ELSE LET b0 == (len \div 16777216) % 256
         IN <<IF b0 < 128 THEN b0 + 128 ELSE b0,
              (len \div 65536) % 256, (len \div 256) % 256, len % 256>>

\* number of PAGE_SZ blocks that hold the bytes of f
NBlocks(f) == (Len(f) + PAGE_SZ - 1) \div PAGE_SZ

\* byte at position pos of block blknum; the last block is zero padded
BlkByte(f, blknum, pos) ==
    LET at == blknum * PAGE_SZ + pos IN IF at < Len(f) THEN f[at + 1] ELSE 0

\* the payload loop of read_blob: remain bytes from offset off of block
\* blknum, block after block; the chunks it copies are consecutive in the
\* zero padded file, so they are taken as one range of it
ReadPayload(f, blknum, off, remain) ==
    LET from == blknum * PAGE_SZ + off
        upto == from + remain
    IN IF upto <= Len(f) THEN SubSeq(f, from + 1, upto)
       ELSE SubSeq(f, from + 1, Len(f))
            \o [i \in 1..(upto - (IF from > Len(f) THEN from ELSE Len(f))) |-> 0]

\* BlockCursor::read_blob: [ok |-> FALSE] is an I/O error (a block past the end)
read_blob(f, offset) ==
    LET blknum == offset \div PAGE_SZ
        off == offset % PAGE_SZ
        first == BlkByte(f, blknum, off)
        hdr == IF first < 128 THEN 1 ELSE 4
        \* a four byte header may continue on the next block
        HdrByte(i) == BlkByte(f, (offset + i) \div PAGE_SZ, (offset + i) % PAGE_SZ)
        len == IF first < 128 THEN first
               ELSE (first % 128) * 16777216 + HdrByte(1) * 65536
                    + HdrByte(2) * 256 + HdrByte(3)
        lastblk == IF len = 0 THEN (offset + hdr - 1) \div PAGE_SZ
                   ELSE (offset + hdr + len - 1) \div PAGE_SZ
    IN IF blknum >= NBlocks(f) \/ lastblk >= NBlocks(f)
       THEN [ok |-> FALSE]
       ELSE [ok |-> TRUE,
             buf |-> ReadPayload(f, (offset + hdr) \div PAGE_SZ,
                                 (offset + hdr) % PAGE_SZ, len)]

-----------------------------------------------------------------------------
(* VecMap *)

\* VecMap::append_or_update_last: appends above the last key, replaces the
\* value of the last key, and fails below the last key
append_or_update_last(vec_map, lsn, off) ==
    IF vec_map = << >> \/ lsn > Last(vec_map)[1]
    THEN [ok |-> TRUE, vec_map |-> Append(vec_map, <<lsn, off>>), old |-> << >>]
    ELSE IF lsn = Last(vec_map)[1]
    THEN [ok |-> TRUE, vec_map |-> Append(Front(vec_map), <<lsn, off>>),
          old |-> <<Last(vec_map)[2]>>]
    ELSE [ok |-> FALSE]

\* VecMap::slice_range(lo..hi): the entries with lo <= lsn < hi
slice_range(vec_map, lo, hi) ==
    LET n_lo == Cardinality({i \in 1..Len(vec_map) : vec_map[i][1] < lo})
        n_hi == Cardinality({i \in 1..Len(vec_map) : vec_map[i][1] < hi})
    IN SubSeq(vec_map, n_lo + 1, n_hi)

-----------------------------------------------------------------------------
(* SerializedBatch *)

RECURSIVE BatchRaw(_)
\* the buffer from_values builds: per value its length header and its bytes
BatchRaw(batch) ==
    IF batch = << >> THEN << >>
    ELSE BatchRaw(Front(batch))
         \o write_blob_length(Last(batch).size) \o Ser(Last(batch).val)

\* SerializedBatch::from_values
from_values(batch) ==
    [raw |-> BatchRaw(batch),
     offsets |-> [i \in 1..Len(batch) |->
                    [key |-> batch[i].key, lsn |-> batch[i].lsn,
                     offset |-> Len(BatchRaw(SubSeq(batch, 1, i - 1)))]],
     max_lsn |-> LET ls == {batch[i].lsn : i \in 1..Len(batch)} \cup {0}
                 IN CHOOSE m \in ls : \A l \in ls : l <= m]

\* the batches the ingest path hands over: every value with its serialized size
BatchEntries ==
    {[key |-> k, lsn |-> l, size |-> Len(Ser(v)), val |-> v] :
        k \in Keys, l \in Lsns, v \in Values}

Batches == UNION {SeqsOfLen(BatchEntries, n) : n \in BatchLens}

-----------------------------------------------------------------------------
(* GlobalResourceUnits *)

publish_size_AtCeiling(self_bytes, size, gbytes, glayers, gmax) ==
    LET new_global == IF size = self_bytes THEN gbytes
                      ELSE IF size > self_bytes THEN gbytes + (size - self_bytes)
                      ELSE gbytes - (self_bytes - size)
    IN [g_dirty_bytes |-> new_global,
        dirty_bytes |-> size,
        ret |-> IF gmax > 0 /\ new_global >= gmax
                THEN <<new_global \div glayers>> ELSE << >>]

\* GlobalResourceUnits::publish_size as one step: the new global dirty bytes,
\* the handle's published size and the advisory ceiling (<< >> is None)
publish_size(self_bytes, size, gbytes, glayers, gmax) ==
    LET new_global == IF size = self_bytes THEN gbytes
                      ELSE IF size > self_bytes THEN gbytes + (size - self_bytes)
                      ELSE gbytes - (self_bytes - size)
    IN [g_dirty_bytes |-> new_global,
        dirty_bytes |-> size,
        ret |-> IF gmax > 0 /\ new_global > gmax
                THEN <<new_global \div glayers>> ELSE << >>]

ShouldPublish_AtDrift(self_bytes, size) ==
    IF size = self_bytes THEN FALSE
    ELSE IF size > self_bytes THEN size - self_bytes >= MAX_SIZE_DRIFT
    ELSE self_bytes - size >= MAX_SIZE_DRIFT

\* the test of GlobalResourceUnits::maybe_publish_size
ShouldPublish(self_bytes, size) ==
    IF size = self_bytes THEN FALSE
    ELSE IF size > self_bytes THEN size - self_bytes > MAX_SIZE_DRIFT
    ELSE self_bytes - size > MAX_SIZE_DRIFT

-----------------------------------------------------------------------------
(* InMemoryLayer *)

\* put_batch: `let off = base_off + relative_off`
IndexOffset_NoBase(base_off, relative_off) == relative_off

IndexOffset(base_off, relative_off) == base_off + relative_off

entry_or_default_Fresh(idx, key) == << >>

\* inner.index.entry(key).or_default(): the VecMap of the key, a new one if
\* the index has none
entry_or_default(idx, key) == IF key \in DOMAIN idx THEN idx[key] ELSE << >>

RECURSIVE ApplyOffsets(_, _, _, _, _)
\* the loop of put_batch over serialized_batch.offsets: st.index is the index
\* so far, st.hist the history of its updates; it stops at the first failed
\* append_or_update_last, whose unwrap panics
ApplyOffsets(st, offsets, batch, base_off, i) ==
    IF i > Len(offsets) THEN st
    ELSE LET o == offsets[i]
             off == IndexOffset(base_off, o.offset)
             vec_map == entry_or_default(st.index, o.key)
             r == append_or_update_last(vec_map, o.lsn, off)
         IN IF ~r.ok THEN [ok |-> FALSE, index |-> st.index, hist |-> st.hist,
                             failed |-> <<o.key, o.lsn>>]
            ELSE ApplyOffsets(
                   [ok |-> TRUE,
                    index |-> [k \in DOMAIN st.index \cup {o.key} |->
                                 IF k = o.key THEN r.vec_map ELSE st.index[k]],
                    hist |-> [p \in DOMAIN st.hist \cup {<<o.key, o.lsn>>} |->
                                 IF p = <<o.key, o.lsn>>
                                 THEN [val |-> batch[i].val, base |-> base_off,
                                       rel |-> o.offset]
                                 ELSE st.hist[p]]],
                   offsets, batch, base_off, i + 1)

InitLayer ==
    /\ start_lsn = StartLsn
    /\ end_lsn = << >>
    /\ file = << >>
    /\ index = << >>
    /\ ru_dirty_bytes = 0
    /\ g_dirty_bytes = 0
    /\ g_dirty_layers = 1
    /\ g_max_dirty_bytes = 0
    /\ result = [op |-> "create", res |-> "ok"]
    /\ batched = << >>
    /\ nvalues = 0


assert_writable_Off == TRUE

\* InMemoryLayer::assert_writable: the condition it asserts
assert_writable == end_lsn = << >>

\* InMemoryLayer::put_batch after assert_writable: write_raw, the index
\* updates and maybe_publish_size. io_ok = FALSE is a failed
\* write_all_borrowed, which leaves the file unchanged.
put_batch_write(batch, io_ok) ==
    LET sb == from_values(batch)
        base_off == Len(file)
        st == ApplyOffsets([ok |-> TRUE, index |-> index, hist |-> batched],
                           sb.offsets, batch, base_off, 1)
        size == Len(file) + Len(sb.raw)
        pub == publish_size(ru_dirty_bytes, size, g_dirty_bytes, g_dirty_layers,
                            g_max_dirty_bytes)
    IN IF ~io_ok
       THEN /\ result' = [op |-> "put_batch", res |-> "err", err |-> "Io"]
            /\ UNCHANGED <<file, index, batched, ru_dirty_bytes, g_dirty_bytes, nvalues>>
       ELSE /\ file' = file \o sb.raw
            /\ index' = st.index
            /\ batched' = st.hist
            /\ nvalues' = nvalues + Len(batch)
            /\ IF ~st.ok
               THEN \* the unwrap of a failed append_or_update_last panics
                    /\ result' = [op |-> "put_batch", res |-> "panic",
                                  key |-> st.failed[1], lsn |-> st.failed[2]]
                    /\ UNCHANGED <<ru_dirty_bytes, g_dirty_bytes>>
               ELSE /\ result' = [op |-> "put_batch", res |-> "ok"]
                    /\ IF ShouldPublish(ru_dirty_bytes, size)
                       THEN /\ ru_dirty_bytes' = pub.dirty_bytes
                            /\ g_dirty_bytes' = pub.g_dirty_bytes
                       ELSE UNCHANGED <<ru_dirty_bytes, g_dirty_bytes>>

\* InMemoryLayer::put_batch, under the write lock of inner
put_batch(batch, io_ok) ==
    IF ~assert_writable
    THEN \* the assert! panics: the call returns nothing
         /\ result' = [op |-> "put_batch", res |-> "panic"]
         /\ UNCHANGED <<file, index, batched, ru_dirty_bytes, g_dirty_bytes, nvalues>>
    ELSE put_batch_write(batch, io_ok)

\* a put_batch call while fewer than max values have been handed over
PutBatchUpTo(max) ==
    /\ nvalues < max
    /\ \E batch \in Batches, io_ok \in BOOLEAN :
          /\ nvalues + Len(batch) <= max
          /\ put_batch(batch, io_ok)
    /\ UNCHANGED <<start_lsn, end_lsn, g_dirty_layers, g_max_dirty_bytes>>
    /\ UNCHANGED non_layer_vars

PutBatch == PutBatchUpTo(MaxEntries)

\* InMemoryLayer::tick
tick ==
    LET pub == publish_size(ru_dirty_bytes, Len(file), g_dirty_bytes, g_dirty_layers,
                            g_max_dirty_bytes)
    IN /\ ru_dirty_bytes' = pub.dirty_bytes
       /\ g_dirty_bytes' = pub.g_dirty_bytes
       /\ result' = [op |-> "tick", res |-> "ok", ret |-> pub.ret]

Tick ==
    /\ tick
    /\ UNCHANGED <<start_lsn, end_lsn, file, index, batched, nvalues, g_dirty_layers,
                   g_max_dirty_bytes>>
    /\ UNCHANGED non_layer_vars

\* every indexed LSN is below lsn: the debug-build check of freeze
AllBelow(idx, lsn) ==
    \A k \in DOMAIN idx : \A i \in 1..Len(idx[k]) : idx[k][i][1] < lsn

freeze_Overwrite(lsn, debug) ==
    IF ~(start_lsn < lsn)
    THEN /\ result' = [op |-> "freeze", res |-> "panic", lsn |-> lsn]
         /\ UNCHANGED end_lsn
    ELSE /\ end_lsn' = <<lsn>>
         /\ result' = [op |-> "freeze", res |-> "ok", lsn |-> lsn]

\* InMemoryLayer::freeze; debug is whether the build has debug_assertions
freeze(lsn, debug) ==
    IF ~(start_lsn < lsn) \/ end_lsn # << >>
    THEN \* the assert, or the expect on OnceLock::set, panics
         /\ result' = [op |-> "freeze", res |-> "panic", lsn |-> lsn]
         /\ UNCHANGED end_lsn
    ELSE /\ end_lsn' = <<lsn>>
         /\ result' = [op |-> "freeze",
                       res |-> IF debug /\ ~AllBelow(index, lsn) THEN "panic" ELSE "ok",
                       lsn |-> lsn]

Freeze ==
    /\ \E lsn \in 1..(MaxLsn + 1), debug \in BOOLEAN : freeze(lsn, debug)
    /\ UNCHANGED <<start_lsn, file, index, batched, nvalues, ru_dirty_bytes,
                   g_dirty_bytes, g_dirty_layers, g_max_dirty_bytes>>
    /\ UNCHANGED non_layer_vars

\* Lsn::INVALID
InvalidLsn == 0

\* the local variables of compact_level0_phase1 before it has run and after
\* it has returned
L0Locals(phase) ==
    [phase |-> phase, deltas_to_compact |-> << >>, lsn_range |-> <<0, 0>>,
     fully_compacted |-> TRUE, all_keys |-> << >>, all_keys_iter |-> << >>,
     vals_pos |-> 1, holes |-> << >>, next_hole |-> 0, new_layers |-> << >>,
     prev_key |-> << >>, writer |-> << >>, key_values_total_size |-> 0,
     dup_start_lsn |-> InvalidLsn, dup_end_lsn |-> InvalidLsn]

\* no L0 layers and no compaction
L0Idle ==
    /\ l0_layers = << >>
    /\ l0_conf = [compaction_threshold |-> 1, checkpoint_distance |-> 1,
                  target_file_size |-> 1, owned |-> {}, coverage |-> << >>]
    /\ l0 = L0Locals("idle")
    /\ l0_result = [res |-> "none"]
    /\ cancel = FALSE
    /\ rwlock = [guard |-> "none", io |-> {}]

\* no GC-compaction
GcIdle ==
    /\ gc_in = [full_history |-> << >>, horizon |-> 1,
                retain_lsn_below_horizon |-> << >>, delta_threshold_cnt |-> 1,
                base_img_from_ancestor |-> << >>]
    /\ gc_out = [res |-> "none"]
    /\ gc_written = [res |-> "none"]

\* layers of the resource accounting model are counted from 1 to MaxLayers
MaxLayers == 2

\* a handle that does not exist yet
NoUnit ==
    [pc |-> "none", len |-> 0, dirty_bytes |-> 0, size |-> 0, new_global |-> 0,
     dropping |-> FALSE]

\* no layers beside the one of the layer model
ResIdle == units = [h \in 1..MaxLayers |-> NoUnit]

\* EphemeralFile slots of the gate model are counted from 1 to MaxFiles
MaxFiles == 3

\* an open gate that nobody entered
GateIdle ==
    /\ gate = "open"
    /\ files = [f \in 1..MaxFiles |-> [st |-> "none", name |-> 0]]
    /\ next_filename = 1

\* an empty EphemeralFile
BlobIdle ==
    /\ ef_file = << >>
    /\ ef_log = << >>
    /\ ef_read = [at |-> 0]

\* no call on the layer is suspended
ConcIdle == conc = [suspended |-> << >>, freezing |-> << >>]

\* a timeline without layers on which compact_level0 has not run
LmIdle == lm = [layers |-> {}, remote |-> << >>, result |-> [res |-> "none"]]

\* the locals of compact_with_gc before it has run and after it has returned
GccLocals(phase) ==
    [phase |-> phase, layer_selection |-> {}, lowest_retain_lsn |-> 0,
     retain_lsns_below_horizon |-> << >>, merge_iter |-> << >>, pos |-> 1,
     delta_split_points |-> << >>, current_delta_split_point |-> 0,
     accumulated_values |-> << >>, last_key |-> << >>, delta_values |-> << >>,
     delta_layers |-> << >>, image_layer_writer |-> << >>,
     discard_image_layer |-> FALSE, result |-> [res |-> "none"]]

\* a timeline without layers on which compact_with_gc has not run
GccIdle ==
    /\ tl = [layers |-> {}, generation |-> 1, gc_cutoff |-> 1, retain_lsns |-> {},
             has_ancestor |-> FALSE, dry_run |-> FALSE, gc_lock |-> "free",
             cancel |-> FALSE, remote |-> << >>]
    /\ gcc = GccLocals("idle")

\* the flush semaphore with all its permits, and no write_to_disk call
FlushIdle ==
    /\ semaphore = FlushPermits
    /\ flushes = [i \in 1..MaxFlushes |-> [pc |-> "none", ret |-> "none"]]

\* a timeline without layers on which compact_shard_ancestors has not run
SaIdle ==
    sa = [layers |-> {}, shard_count |-> 2, generation |-> 2, latest_gc_cutoff |-> 2,
          rewrite_max |-> 0, phase |-> "idle", drop_layers |-> {},
          layers_to_rewrite |-> << >>, replace_image_layers |-> << >>,
          rewritten |-> FALSE, uploaded |-> FALSE, result |-> "none"]

\* no EphemeralFile was created by name yet
NamesIdle == names = [next |-> <<0, 0, 0, 1>>, filename |-> << >>, created |-> 0]

\* a check_jwt call or a background renewal that has not begun
NoTask == [pc |-> "idle", permit |-> "none", guard |-> << >>, elapsed |-> 0, result |-> "none"]

\* a JwkCacheEntryLock::default() that nothing has called yet
JwkIdle == jwk = [permits |-> 1, cached |-> << >>, tasks |-> << >>]

Init == InitLayer /\ L0Idle /\ GcIdle /\ ResIdle /\ GateIdle /\ BlobIdle /\ JwkIdle /\ NamesIdle /\ SaIdle /\ FlushIdle /\ GccIdle /\ LmIdle /\ ConcIdle

Next == PutBatch \/ Freeze \/ Tick

Spec == Init /\ [][Next]_vars

-----------------------------------------------------------------------------
(* put_batch and freeze called concurrently on one layer *)

\* put_batch up to its await of write_raw: the write lock of inner is taken,
\* assert_writable has passed or panicked
ConcPutBatchStart ==
    /\ conc.suspended = << >>
    /\ nvalues < MaxEntries
    /\ \E batch \in Batches, io_ok \in BOOLEAN :
          /\ nvalues + Len(batch) <= MaxEntries
          /\ IF ~assert_writable
             THEN /\ result' = [op |-> "put_batch", res |-> "panic"]
                  /\ UNCHANGED conc
             ELSE /\ conc' = [conc EXCEPT !.suspended = <<[batch |-> batch, io_ok |-> io_ok]>>]
                  /\ UNCHANGED result
    /\ UNCHANGED <<start_lsn, end_lsn, file, index, batched, nvalues, ru_dirty_bytes,
                   g_dirty_bytes, g_dirty_layers, g_max_dirty_bytes>>
    /\ UNCHANGED non_conc_vars

\* the suspended put_batch resumes: the rest of the call, then the lock is
\* released
ConcPutBatchResume ==
    /\ conc.suspended # << >>
    /\ put_batch_write(conc.suspended[1].batch, conc.suspended[1].io_ok)
    /\ conc' = [conc EXCEPT !.suspended = << >>]
    /\ UNCHANGED <<start_lsn, end_lsn, g_dirty_layers, g_max_dirty_bytes>>
    /\ UNCHANGED non_conc_vars

\* freeze up to the end of what every build runs: it takes no lock; a debug
\* build goes on to wait for the write lock of inner
ConcFreezeSet ==
    /\ conc.freezing = << >>
    /\ \E lsn \in 1..(MaxLsn + 1), debug \in BOOLEAN :
          IF ~(start_lsn < lsn) \/ end_lsn # << >>
          THEN /\ result' = [op |-> "freeze", res |-> "panic", lsn |-> lsn]
               /\ UNCHANGED <<end_lsn, conc>>
          ELSE /\ end_lsn' = <<lsn>>
               /\ IF debug
                  THEN /\ conc' = [conc EXCEPT !.freezing = <<lsn>>]
                       /\ UNCHANGED result
                  ELSE /\ result' = [op |-> "freeze", res |-> "ok", lsn |-> lsn]
                       /\ UNCHANGED conc
    /\ UNCHANGED <<start_lsn, file, index, batched, nvalues, ru_dirty_bytes,
                   g_dirty_bytes, g_dirty_layers, g_max_dirty_bytes>>
    /\ UNCHANGED non_conc_vars

\* the debug build of freeze gets the write lock and checks the indexed LSNs
ConcFreezeCheck ==
    /\ conc.freezing # << >>
    /\ conc.suspended = << >>
    /\ result' = [op |-> "freeze",
                  res |-> IF AllBelow(index, conc.freezing[1]) THEN "ok" ELSE "panic",
                  lsn |-> conc.freezing[1]]
    /\ conc' = [conc EXCEPT !.freezing = << >>]
    /\ UNCHANGED <<start_lsn, end_lsn, file, index, batched, nvalues, ru_dirty_bytes,
                   g_dirty_bytes, g_dirty_layers, g_max_dirty_bytes>>
    /\ UNCHANGED non_conc_vars

NextConc == ConcPutBatchStart \/ ConcPutBatchResume \/ ConcFreezeSet \/ ConcFreezeCheck

SpecConc == Init /\ [][NextConc]_vars

-----------------------------------------------------------------------------
(* InMemoryLayer::write_to_disk *)

\* a mutant walk: only the latest version of each key
IndexWalk_LastOnly(idx) ==
    LET keys == SortedSeq(DOMAIN idx)
    IN [i \in 1..Len(keys) |->
          <<keys[i], Last(idx[keys[i]])[1], Last(idx[keys[i]])[2]>>]

\* the index in the order write_to_disk walks it: keys ascending, and per key
\* the VecMap from its first to its last entry, as <<key, lsn, pos>>
IndexWalk(idx) ==
    LET keys == SortedSeq(DOMAIN idx)
    IN Concat([i \in 1..Len(keys) |->
                 [j \in 1..Len(idx[keys[i]]) |->
                    <<keys[i], idx[keys[i]][j][1], idx[keys[i]][j][2]>>]])

RECURSIVE FlushEntries(_, _, _, _)
\* the value loop of write_to_disk over the loaded file contents, from entry i
\* of the walk: what put_value_bytes receives, or the first read or
\* deserialization error
FlushEntries(walk, contents, i, entries) ==
    IF i > Len(walk) THEN [ok |-> TRUE, entries |-> entries]
    ELSE LET buf == read_blob(contents, walk[i][3])
             value == Des(buf.buf)
         IN IF ~buf.ok THEN [ok |-> FALSE, err |-> "Io"]
            ELSE IF ~value.ok THEN [ok |-> FALSE, err |-> "Deserialize"]
            ELSE FlushEntries(walk, contents, i + 1,
                              Append(entries,
                                     [key |-> walk[i][1], lsn |-> walk[i][2],
                                      val |-> buf.buf,
                                      will_init |-> value.val.will_init]))

\* key ranges handed to write_to_disk: << >> is None, <<lo, hi>> is lo..hi
KeyRanges == {<< >>, <<1, 2>>, <<2, 3>>, <<3, 4>>}

\* key_count of write_to_disk
KeyCount(idx, key_range) ==
    IF key_range = << >> THEN Cardinality(DOMAIN idx)
    ELSE Cardinality({k \in DOMAIN idx : key_range[1] <= k /\ k < key_range[2]})

\* InMemoryLayer::write_to_disk, under the read lock of inner. io_ok = FALSE
\* is a failed write or fsync of the delta layer writer.
write_to_disk(key_range, io_ok) ==
    LET flushed == FlushEntries(IndexWalk(index), file, 1, << >>)
        res(r) == [op |-> "write_to_disk", key_range |-> key_range] @@ r
    IN IF end_lsn = << >>
       THEN \* end_lsn.get().unwrap() panics
            result' = res([res |-> "panic"])
       ELSE IF KeyCount(index, key_range) = 0
       THEN result' = res([res |-> "ok", delta |-> << >>])
       ELSE IF ~io_ok
       THEN result' = res([res |-> "err", err |-> "Io"])
       ELSE IF ~flushed.ok
       THEN result' = res([res |-> "err", err |-> flushed.err])
       ELSE result' = res([res |-> "ok",
                           delta |-> <<[key_range |-> <<KeyMin, KeyMax>>,
                                        lsn_range |-> <<start_lsn, end_lsn[1]>>,
                                        entries |-> flushed.entries]>>])

WriteToDisk ==
    /\ \E key_range \in KeyRanges, io_ok \in BOOLEAN : write_to_disk(key_range, io_ok)
    /\ UNCHANGED <<start_lsn, end_lsn, file, index, batched, nvalues, ru_dirty_bytes,
                   g_dirty_bytes, g_dirty_layers, g_max_dirty_bytes>>
    /\ UNCHANGED non_layer_vars

NextFlush == PutBatch \/ Freeze \/ WriteToDisk

SpecFlush == Init /\ [][NextFlush]_vars

-----------------------------------------------------------------------------
(* Concurrent write_to_disk calls and the flush semaphore *)

\* Semaphore::acquire completes when a permit is available
CanAcquire(permits) == permits > 0

\* a mutant of the drop of the permit: the permit is not given back
drop_permit_Leaked(permits) == permits

\* the drop of _concurrency_permit, at the end of write_to_disk or when the
\* call leaves through a return, a `?` or the drop of its future
drop_permit(permits) == permits + 1

\* write_to_disk is called on a frozen layer: it takes the read lock of inner
\* and awaits a permit
FlushCall(i) ==
    /\ flushes[i].pc = "none"
    /\ flushes' = [flushes EXCEPT ![i] = [pc |-> "acquire", ret |-> "none"]]
    /\ UNCHANGED <<semaphore, non_flush_vars>>

\* semaphore.acquire() completes
FlushAcquire(i) ==
    /\ flushes[i].pc = "acquire" /\ CanAcquire(semaphore)
    /\ semaphore' = semaphore - 1
    /\ flushes' = [flushes EXCEPT ![i].pc = "permit"]
    /\ UNCHANGED non_flush_vars

\* the call leaves write_to_disk with ret; its permit is dropped
FlushReturn(i, ret) ==
    /\ semaphore' = drop_permit(semaphore)
    /\ flushes' = [flushes EXCEPT ![i] = [pc |-> "none", ret |-> ret]]

\* from the permit to the loaded file contents: None when no key is in the
\* range, an error of DeltaLayerWriter::new or of load_to_vec (io_ok = FALSE)
FlushLoad(i) ==
    /\ flushes[i].pc = "permit"
    /\ \E no_keys \in BOOLEAN, io_ok \in BOOLEAN :
          IF no_keys THEN FlushReturn(i, "None")
          ELSE IF ~io_ok THEN FlushReturn(i, "Err")
          ELSE /\ flushes' = [flushes EXCEPT ![i].pc = "loaded"]
               /\ UNCHANGED semaphore
    /\ UNCHANGED non_flush_vars

\* the value loop and the finish of the delta layer writer with its fsync,
\* then drop(_concurrency_permit); io_ok = FALSE is an error of one of them
FlushWrite(i) ==
    /\ flushes[i].pc = "loaded"
    /\ \E io_ok \in BOOLEAN : FlushReturn(i, IF io_ok THEN "Some" ELSE "Err")
    /\ UNCHANGED non_flush_vars

\* the caller drops the future of the call at one of its awaits
FlushDropped(i) ==
    /\ flushes[i].pc \in {"acquire", "permit", "loaded"}
    /\ IF flushes[i].pc = "acquire"
       THEN /\ flushes' = [flushes EXCEPT ![i] = [pc |-> "none", ret |-> "dropped"]]
            /\ UNCHANGED semaphore
       ELSE FlushReturn(i, "dropped")
    /\ UNCHANGED non_flush_vars

NextFlushes ==
    \E i \in 1..MaxFlushes :
       FlushCall(i) \/ FlushAcquire(i) \/ FlushLoad(i) \/ FlushWrite(i) \/ FlushDropped(i)

SpecFlushes == Init /\ [][NextFlushes]_vars

-----------------------------------------------------------------------------
(* InMemoryLayer::get_values_reconstruct_data *)

\* ValuesReconstructState::update_key on the state of one key: the value is
\* recorded, and an image or a will_init record completes the key
update_key(state, lsn, value) ==
    [state EXCEPT !.fed = Append(@, <<lsn, value>>),
                  !.situation = IF value.tag = "Image" \/ value.will_init
                                THEN "Complete" ELSE "Continue"]

\* a mutant of on_key_error: the error is not recorded
on_key_error_Dropped(state, e) == state

\* ValuesReconstructState::on_key_error on the state of one key
on_key_error(state, e) == [state EXCEPT !.err = <<e>>]

\* a mutant lower bound of the walk: the cached LSN itself
LsnFloor_AtCached(s_lsn, cached_lsn) ==
    IF cached_lsn # << >> THEN cached_lsn[1] ELSE s_lsn

\* the start of lsn_range: above the cached LSN of the key, else start_lsn
LsnFloor(s_lsn, cached_lsn) ==
    IF cached_lsn # << >> THEN cached_lsn[1] + 1 ELSE s_lsn

RECURSIVE WalkSlice(_, _, _, _)
\* the loop over slice.iter().rev(): i counts down from the last entry of
\* the slice; it breaks on an error and when the key is Complete
WalkSlice(slice, f, i, state) ==
    IF i = 0 THEN state
    ELSE LET buf == read_blob(f, slice[i][2])
         IN IF ~buf.ok THEN on_key_error(state, "Io")
            ELSE IF ~Des(buf.buf).ok THEN on_key_error(state, "Deserialize")
            ELSE LET st == update_key(state, slice[i][1], Des(buf.buf).val)
                 IN IF st.situation = "Complete" THEN st
                    ELSE WalkSlice(slice, f, i - 1, st)

\* the body of get_values_reconstruct_data for the keys of one range of the
\* keyspace: per indexed key of the range, the state the walk leaves
get_values_reconstruct_data(idx, f, s_lsn, range, e_lsn, cached) ==
    [key \in {k \in DOMAIN idx : range[1] <= k /\ k < range[2]} |->
        LET slice == slice_range(idx[key], LsnFloor(s_lsn, cached[key]), e_lsn)
        IN WalkSlice(slice, f, Len(slice),
                     [fed |-> << >>, situation |-> "Continue", err |-> << >>])]

\* the key ranges of the keyspaces read
ReadRanges == {<<1, 2>>, <<2, 3>>, <<1, 3>>}

\* the cached LSNs of the reconstruct state: none, or LSN 1 for key 1
CachedLsns == {[k \in Keys |-> IF k \in K THEN <<1>> ELSE << >>] : K \in {{}, {1}}}

\* a read, under the read lock of inner. The range (cached_lsn + 1)..end_lsn
\* of a key is taken with its start at or below its end.
GetValues ==
    /\ \E range \in ReadRanges, e_lsn \in 1..(MaxLsn + 1), cached \in CachedLsns :
          /\ \A k \in Keys : LsnFloor(start_lsn, cached[k]) <= e_lsn
          /\ result' = [op |-> "get_values", res |-> "ok", range |-> range,
                        end_lsn |-> e_lsn, cached |-> cached,
                        state |-> get_values_reconstruct_data(
                                     index, file, start_lsn, range, e_lsn, cached)]
    /\ UNCHANGED <<start_lsn, end_lsn, file, index, batched, nvalues, ru_dirty_bytes,
                   g_dirty_bytes, g_dirty_layers, g_max_dirty_bytes>>
    /\ UNCHANGED non_layer_vars

NextRead == PutBatch \/ GetValues

SpecRead == Init /\ [][NextRead]_vars

\* the file with the first byte of the value of the blob at pos, its tag,
\* overwritten: Value::des of the blob fails
DamagedAt(f, pos) ==
    LET hdr == IF f[pos + 1] < 128 THEN 1 ELSE 4
    IN [f EXCEPT ![pos + hdr + 1] = 255]

\* what the block cursor may return for the file of the layer: the file, the
\* file with one indexed value damaged, or no block at all (every read_blob
\* fails)
ReaderViews(idx, f) ==
    {f, << >>}
    \cup UNION {{DamagedAt(f, idx[k][i][2]) : i \in 1..Len(idx[k])} : k \in DOMAIN idx}

\* a read, under the read lock of inner, through a block cursor whose reads
\* may fail or return damaged values; the reconstruct state has no cached
\* LSN, and the bound is above the greatest LSN
GetValuesDamaged ==
    /\ \E range \in ReadRanges, e_lsn \in {MaxLsn + 1} :
       \E view \in ReaderViews(index, file), cached \in {[k \in Keys |-> << >>]} :
          /\ \A k \in Keys : LsnFloor(start_lsn, cached[k]) <= e_lsn
          /\ result' = [op |-> "get_values", res |-> "ok", range |-> range,
                        end_lsn |-> e_lsn, cached |-> cached, view |-> view,
                        state |-> get_values_reconstruct_data(
                                     index, view, start_lsn, range, e_lsn, cached)]
    /\ UNCHANGED <<start_lsn, end_lsn, file, index, batched, nvalues, ru_dirty_bytes,
                   g_dirty_bytes, g_dirty_layers, g_max_dirty_bytes>>
    /\ UNCHANGED non_layer_vars

NextReadErr == PutBatch \/ GetValuesDamaged

SpecReadErr == Init /\ [][NextReadErr]_vars

-----------------------------------------------------------------------------
(* L0 -> L1 compaction: Timeline::compact_level0_phase1 *)

\* the inputs: the (key, LSN) pairs held by the L0 layers are at most
\* MaxL0Entries pairs of L0Keys \X L0Lsns
MaxL0Entries == 3
L0Keys == {1, 2, 3}
L0Lsns == 1..3

\* the LSN ranges of the L0 layers: one layer, a contiguous pair in either
\* order of the layer map, a pair with an LSN gap, and three contiguous
\* layers followed by a gap and a fourth layer, in no order
L0Shapes == {<<<<1, 4>>>>, <<<<1, 3>>, <<3, 4>>>>, <<<<3, 4>>, <<1, 3>>>>,
             <<<<1, 2>>, <<3, 4>>>>,
             <<<<40, 50>>, <<10, 20>>, <<0, 10>>, <<20, 30>>>>}

\* the file sizes of the L0 layers, in MiB: small files, or files of which
\* one reaches the limit of the selection
MiB == 1024 * 1024
L0FileSizes == {1, 3000}

DEFAULT_COMPACTION_THRESHOLD == 10
DEFAULT_CHECKPOINT_DISTANCE == 256 * 1024 * 1024

Max2(a, b) == IF a >= b THEN a ELSE b

RECURSIVE SortIdx(_, _)
\* a stable sort: the positions S of a sequence of integers rank, ascending
SortIdx(rank, S) ==
    IF S = {} THEN << >>
    ELSE LET i == CHOOSE i \in S : \A j \in S :
                     rank[i] < rank[j] \/ (rank[i] = rank[j] /\ i <= j)
         IN <<i>> \o SortIdx(rank, S \ {i})

RECURSIVE SumSizes(_)
SumSizes(entries) ==
    IF entries = << >> THEN 0 ELSE Head(entries).size + SumSizes(Tail(entries))

\* a delta layer over lsn_range holding the given (key, LSN) pairs, sorted
DeltaLayerOf(lsn_range, pairs) ==
    LET mine == {p \in pairs : lsn_range[1] <= p[2] /\ p[2] < lsn_range[2]}
        seq == SortedSeq({100 * p[1] + p[2] : p \in mine})
        entries == [i \in 1..Len(seq) |->
                      [key |-> seq[i] \div 100, lsn |-> seq[i] % 100, size |-> 1,
                       val |-> 1000 + seq[i]]]
    IN [lsn_range |-> lsn_range, entries |-> entries]

\* ShardIdentity::is_key_disposable
is_key_disposable(key) == key \notin l0_conf.owned

\* Key::next
KeyNext(key) == key + 1

\* delta_size_limit, the product of the two maxima, in MiB: the file sizes
\* are whole MiB to keep the numbers within the integers of the model checker
delta_size_limit ==
    Max2(l0_conf.compaction_threshold, DEFAULT_COMPACTION_THRESHOLD)
      * (Max2(l0_conf.checkpoint_distance, DEFAULT_CHECKPOINT_DISTANCE) \div MiB)

\* a mutant of the size test: every layer reaches the limit
ReachesSizeLimit_Always(bytes) == TRUE

\* deltas_to_compact_bytes >= delta_size_limit
ReachesSizeLimit(bytes) == bytes >= delta_size_limit

RECURSIVE SelectDeltas(_, _, _)
\* the selection loop over the L0 layers after the oldest, in start LSN order
SelectDeltas(order, i, sel) ==
    IF i > Len(order) THEN sel
    ELSE LET l == l0_layers[order[i]]
             bytes == sel.bytes + l.file_size
         IN IF l.lsn_range[1] # sel.prev_lsn_end THEN sel
            ELSE IF ReachesSizeLimit(bytes)
            THEN [deltas |-> Append(sel.deltas, order[i]), bytes |-> bytes,
                  prev_lsn_end |-> l.lsn_range[2], fully_compacted |-> FALSE]
            ELSE SelectDeltas(order, i + 1,
                              [sel EXCEPT !.deltas = Append(@, order[i]),
                                          !.bytes = bytes,
                                          !.prev_lsn_end = l.lsn_range[2]])

\* all_keys: the entries of the selected layers sorted by (key, lsn)
AllKeys(deltas) ==
    LET all == Concat([i \in 1..Len(deltas) |-> l0_layers[deltas[i]].entries])
        order == SortIdx([i \in 1..Len(all) |-> 100 * all[i].key + all[i].lsn],
                         1..Len(all))
    IN [i \in 1..Len(all) |-> all[order[i]]]

RECURSIVE PushHoles(_, _, _, _)
\* the heap of holes after the scan of all_keys from entry i: a hole is pushed
\* for a key gap covered by enough image layers, and the hole of the least
\* coverage is popped when the heap holds more than max_holes
PushHoles(all_keys, i, heap, max_holes) ==
    IF i > Len(all_keys) THEN heap
    ELSE LET prev_key == KeyNext(all_keys[i - 1].key)
             next_key == all_keys[i].key
             min_hole_range == l0_conf.target_file_size \div PAGE_SZ
             coverage_size == l0_conf.coverage[next_key]
             pushed == heap \cup {[key_range |-> <<prev_key, next_key>>,
                                   coverage_size |-> coverage_size]}
             least == CHOOSE h \in pushed :
                         \A g \in pushed : h.coverage_size <= g.coverage_size
         IN IF next_key - prev_key >= min_hole_range /\ coverage_size >= 3
            THEN PushHoles(all_keys, i + 1,
                           IF Cardinality(pushed) > max_holes
                           THEN pushed \ {least} ELSE pushed, max_holes)
            ELSE PushHoles(all_keys, i + 1, heap, max_holes)

\* holes: the heap sorted by the start of the key range
Holes(all_keys, max_holes) ==
    LET heap == PushHoles(all_keys, 2, {}, max_holes)
        starts == SortedSeq({h.key_range[1] : h \in heap})
    IN [i \in 1..Len(starts) |-> CHOOSE h \in heap : h.key_range[1] = starts[i]]

RECURSIVE Coalesce(_, _)
\* all_keys_iter: consecutive entries of one key are merged, their sizes
\* added, while the merged size is below target_file_size
Coalesce(prev, rest) ==
    IF rest = << >> THEN <<prev>>
    ELSE IF prev.key = Head(rest).key /\ prev.size < l0_conf.target_file_size
    THEN Coalesce([prev EXCEPT !.size = @ + Head(rest).size], Tail(rest))
    ELSE <<prev>> \o Coalesce(Head(rest), Tail(rest))

\* the layer I/O operations ops start while the guard `during` is held on the
\* lock of the LayerManager, and the guard is `after` when they are done
LayerIo(ops, during, after) ==
    rwlock' = [guard |-> after,
               io |-> rwlock.io \cup {[op |-> o, guard |-> during] : o \in ops}]

\* a mutant of drop_rlock: the guard is kept
drop_rlock_Kept(guard) == guard

\* drop_rlock: the shared guard is released
drop_rlock(guard) == "none"

\* return of compact_level0_phase1: the locals are gone
L0Return(r) ==
    /\ l0' = L0Locals("done")
    /\ l0_result' = r

\* the first part of compact_level0_phase1, under the shared lock of the layer
\* map: threshold check, selection of the deltas, all_keys and holes.
\* io_ok = FALSE is a failed download or load_keys.
L0Plan(io_ok) ==
    LET order == SortIdx([i \in 1..Len(l0_layers) |-> l0_layers[i].lsn_range[1]],
                         1..Len(l0_layers))
        first == l0_layers[order[1]]
        sel == SelectDeltas(order, 2,
                            [deltas |-> <<order[1]>>, bytes |-> 0,
                             prev_lsn_end |-> first.lsn_range[2],
                             fully_compacted |-> TRUE])
        last == l0_layers[sel.deltas[Len(sel.deltas)]]
        all_keys == AllKeys(sel.deltas)
    IN IF l0_layers = << >> \/ Len(l0_layers) < l0_conf.compaction_threshold
       THEN /\ L0Return([res |-> "ok", new_layers |-> << >>,
                         deltas_to_compact |-> << >>, fully_compacted |-> FALSE])
            /\ LayerIo({}, "shared", "none")
       ELSE IF ~io_ok
       THEN /\ L0Return([res |-> "err", err |-> "Other"])
            /\ LayerIo({"download"}, "shared", "none")
       ELSE IF cancel
       THEN /\ L0Return([res |-> "err", err |-> "ShuttingDown"])
            /\ LayerIo({"download", "load_keys"}, "shared", "none")
       ELSE /\ LayerIo({"download", "load_keys"}, "shared", drop_rlock("shared"))
            /\ l0' = [L0Locals("write") EXCEPT
                        !.deltas_to_compact = sel.deltas,
                        !.fully_compacted = sel.fully_compacted,
                        !.lsn_range = <<first.lsn_range[1], last.lsn_range[2]>>,
                        !.all_keys = all_keys,
                        !.all_keys_iter = IF all_keys = << >> THEN << >>
                                          ELSE Coalesce(
                                                 [key |-> all_keys[1].key,
                                                  lsn |-> all_keys[1].lsn,
                                                  size |-> all_keys[1].size],
                                                 [i \in 1..(Len(all_keys) - 1) |->
                                                    [key |-> all_keys[i + 1].key,
                                                     lsn |-> all_keys[i + 1].lsn,
                                                     size |-> all_keys[i + 1].size]]),
                        !.holes = Holes(all_keys, Len(sel.deltas))]
            /\ UNCHANGED l0_result

RECURSIVE ScanKeys(_, _, _, _)
\* the loop over all_keys_iter.by_ref() that sizes the key of the current
\* entry: st holds the iterator and the locals the loop assigns
ScanKeys(key, lsn, lsn_range_end, st) ==
    IF st.iter = << >> THEN st
    ELSE LET next == Head(st.iter)
             total == st.key_values_total_size + next.size
         IN IF key # next.key
            THEN IF st.dup_end_lsn # InvalidLsn
                 THEN [st EXCEPT !.iter = Tail(@), !.next_key_size = next.size,
                                 !.dup_start_lsn = st.dup_end_lsn,
                                 !.dup_end_lsn = lsn_range_end]
                 ELSE [st EXCEPT !.iter = Tail(@), !.next_key_size = next.size]
            ELSE IF total > l0_conf.target_file_size /\ lsn # next.lsn
            THEN [st EXCEPT !.iter = Tail(@), !.next_key_size = next.size,
                            !.key_values_total_size = total,
                            !.dup_start_lsn = IF st.dup_end_lsn # InvalidLsn
                                              THEN st.dup_end_lsn ELSE lsn,
                            !.dup_end_lsn = next.lsn]
            ELSE ScanKeys(key, lsn, lsn_range_end,
                          [st EXCEPT !.iter = Tail(@), !.next_key_size = next.size,
                                     !.key_values_total_size = total])

\* DeltaLayerWriter::finish
WriterFinish(writer, key_end) ==
    [key_range |-> <<writer.key_start, key_end>>, lsn_range |-> writer.lsn_range,
     entries |-> writer.entries]

\* a mutant of the ownership test: every key is written
KeepsKey_All(key) == TRUE

\* the test that guards put_value
KeepsKey(key) == ~is_key_disposable(key)

\* a mutant of the LSN range of a new writer: always that of the compaction
WriterLsnRange_Whole(dup_start_lsn, dup_end_lsn, lsn_range) == lsn_range

\* the LSN range of a new DeltaLayerWriter: that of the slice of one key's
\* values, or that of the compaction
WriterLsnRange(dup_start_lsn, dup_end_lsn, lsn_range) ==
    IF dup_end_lsn # InvalidLsn THEN <<dup_start_lsn, dup_end_lsn>> ELSE lsn_range

\* a mutant of the hole test: no key is beyond a hole
ContainsHole_Never(holes, next_hole, key) == FALSE

\* contains_hole: the key is at or beyond the end of the next hole
ContainsHole(holes, next_hole, key) ==
    next_hole < Len(holes) /\ key >= holes[next_hole + 1].key_range[2]

\* one iteration of the loop over all_values_iter. io_ok = FALSE is a failed
\* value load, writer creation, put_value or finish.
L0Step(io_ok) ==
    LET e == l0.all_keys[l0.vals_pos]
        key == e.key
        lsn == e.lsn
        same_key == l0.prev_key = <<key>>
        boundary == ~same_key \/ lsn = l0.dup_end_lsn
        is_dup_layer == l0.dup_end_lsn # InvalidLsn
        scanned == ScanKeys(key, lsn, l0.lsn_range[2],
                            [iter |-> l0.all_keys_iter, next_key_size |-> 0,
                             key_values_total_size |-> l0.key_values_total_size,
                             dup_start_lsn |-> InvalidLsn,
                             dup_end_lsn |-> IF same_key THEN l0.dup_end_lsn
                                             ELSE InvalidLsn])
        st == IF scanned.dup_end_lsn # InvalidLsn /\ scanned.dup_start_lsn = InvalidLsn
              THEN [scanned EXCEPT !.dup_start_lsn = scanned.dup_end_lsn,
                                   !.dup_end_lsn = l0.lsn_range[2]]
              ELSE scanned
        contains_hole == ContainsHole(l0.holes, l0.next_hole, key)
        flush == /\ l0.writer # << >>
                 /\ \/ is_dup_layer
                    \/ st.dup_end_lsn # InvalidLsn
                    \/ l0.writer[1].size + st.key_values_total_size
                         > l0_conf.target_file_size
                    \/ contains_hole
        \* the locals after the key boundary block
        b == IF ~boundary THEN l0
             ELSE [l0 EXCEPT
                     !.all_keys_iter = st.iter,
                     !.dup_start_lsn = st.dup_start_lsn,
                     !.dup_end_lsn = st.dup_end_lsn,
                     !.key_values_total_size = st.next_key_size,
                     !.new_layers = IF flush
                                    THEN Append(@, WriterFinish(l0.writer[1],
                                                       KeyNext(l0.prev_key[1])))
                                    ELSE @,
                     !.writer = IF flush THEN << >> ELSE @,
                     !.next_hole = IF flush /\ contains_hole THEN @ + 1 ELSE @]
        opened == IF b.writer # << >> THEN b.writer[1]
                  ELSE [key_start |-> key,
                        lsn_range |-> WriterLsnRange(b.dup_start_lsn, b.dup_end_lsn,
                                                     l0.lsn_range),
                        entries |-> << >>, size |-> 0]
        put == [opened EXCEPT
                  !.entries = Append(@, [key |-> key, lsn |-> lsn, val |-> e.val]),
                  !.size = @ + e.size]
        written == IF KeepsKey(key) \/ (boundary /\ flush)
                   THEN {"write_output"} ELSE {}
    IN IF ~io_ok
       THEN /\ L0Return([res |-> "err", err |-> "Other"])
            /\ LayerIo({"read_value"}, rwlock.guard, "none")
       ELSE IF KeepsKey(key) /\ b.writer = << >> /\ cancel
       THEN /\ L0Return([res |-> "err", err |-> "ShuttingDown"])
            /\ LayerIo({"read_value"} \cup IF boundary /\ flush
                                           THEN {"write_output"} ELSE {},
                        rwlock.guard, "none")
       ELSE /\ LayerIo({"read_value"} \cup written, rwlock.guard, rwlock.guard)
            /\ l0' = [b EXCEPT !.writer = IF KeepsKey(key) THEN <<put>> ELSE @,
                               !.prev_key = <<key>>,
                               !.vals_pos = @ + 1]
            /\ UNCHANGED l0_result

\* a mutant end of the loop: the open writer is dropped
FinalLayers_Dropped(new_layers, writer, prev_key) == new_layers

\* new_layers after the loop: the open writer is finished at the key after
\* the last one
FinalLayers(new_layers, writer, prev_key) ==
    IF writer # << >>
    THEN Append(new_layers, WriterFinish(writer[1], KeyNext(prev_key[1])))
    ELSE new_layers

\* the end of compact_level0_phase1. io_ok = FALSE is a failed finish of the
\* open writer; sync_ok = FALSE is a failed fsync of the timeline directory,
\* on which fatal_err ends the process. synced tells that the directory was
\* fsynced after the last layer was finished.
L0Finish(io_ok, sync_ok) ==
    LET new_layers == FinalLayers(l0.new_layers, l0.writer, l0.prev_key)
    IN /\ LayerIo(IF l0.writer # << >> THEN {"write_output"} ELSE {},
                  rwlock.guard, "none")
       /\ IF l0.writer # << >> /\ ~io_ok THEN L0Return([res |-> "err", err |-> "Other"])
          ELSE IF new_layers # << >> /\ ~sync_ok THEN L0Return([res |-> "abort"])
          ELSE L0Return([res |-> "ok",
                         new_layers |-> new_layers,
                         deltas_to_compact |-> l0.deltas_to_compact,
                         fully_compacted |-> l0.fully_compacted,
                         synced |-> new_layers # << >>])

Plan ==
    /\ l0.phase = "idle"
    /\ \E io_ok \in BOOLEAN : L0Plan(io_ok)
    /\ UNCHANGED <<non_l0_vars, l0_layers, l0_conf, cancel, lm>>

Step ==
    /\ l0.phase = "write" /\ l0.vals_pos <= Len(l0.all_keys)
    /\ \E io_ok \in BOOLEAN : L0Step(io_ok)
    /\ UNCHANGED <<non_l0_vars, l0_layers, l0_conf, cancel, lm>>

Finish ==
    /\ l0.phase = "write" /\ l0.vals_pos > Len(l0.all_keys)
    /\ \E io_ok \in BOOLEAN, sync_ok \in BOOLEAN : L0Finish(io_ok, sync_ok)
    /\ UNCHANGED <<non_l0_vars, l0_layers, l0_conf, cancel, lm>>

\* the cancellation token is set while the compaction runs
Cancel ==
    /\ ~cancel /\ l0.phase # "done"
    /\ cancel' = TRUE
    /\ UNCHANGED <<non_l0_vars, l0_layers, l0_conf, l0, l0_result, lm, rwlock>>

\* a mutant of the commit: the compacted inputs stay in the layer map
finish_compact_batch_KeepInputs(layers, new_deltas, layers_to_remove) ==
    layers \cup Range(new_deltas)

\* Timeline::finish_compact_batch on the layers of the LayerMap: the
\* compacted inputs are replaced by the new layers under the exclusive lock
finish_compact_batch(layers, new_deltas, layers_to_remove) ==
    (layers \ layers_to_remove) \cup Range(new_deltas)

\* Timeline::compact_level0 after compact_level0_phase1 has returned.
\* commit_ok = FALSE is finish_compact_batch failing before it changes
\* anything.
compact_level0(commit_ok) ==
    LET inputs == {l0_layers[i] : i \in Range(l0_result.deltas_to_compact)}
    IN IF l0_result.res # "ok"
       THEN lm' = [lm EXCEPT !.result = l0_result] /\ UNCHANGED rwlock
       ELSE IF l0_result.new_layers = << >> /\ l0_result.deltas_to_compact = << >>
       THEN /\ lm' = [lm EXCEPT !.result = [res |-> "ok", fully_compacted |-> TRUE]]
            /\ UNCHANGED rwlock
       ELSE IF ~commit_ok
       THEN /\ lm' = [lm EXCEPT !.result = [res |-> "err", err |-> "Other"]]
            /\ UNCHANGED rwlock
       ELSE LayerIo({"swap"}, "exclusive", "none") /\
            lm' = [layers |-> finish_compact_batch(lm.layers, l0_result.new_layers, inputs),
                   remote |-> Append(lm.remote, [remove |-> inputs,
                                                 add |-> Range(l0_result.new_layers)]),
                   result |-> [res |-> "ok",
                               fully_compacted |-> l0_result.fully_compacted]]

Commit ==
    /\ l0.phase = "done" /\ l0_result.res # "abort" /\ lm.result.res = "none"
    /\ \E commit_ok \in BOOLEAN : compact_level0(commit_ok)
    /\ UNCHANGED <<non_l0_vars, l0_layers, l0_conf, l0, l0_result, cancel>>

\* the image coverage of the key gap that ends at a key
L0Coverages == {[k \in L0Keys |-> IF k \in K THEN k + 1 ELSE 0] : K \in {{}, {2, 3}}}

InitL0 ==
    /\ InitLayer /\ GcIdle /\ ResIdle /\ GateIdle /\ BlobIdle /\ JwkIdle /\ NamesIdle /\ SaIdle /\ FlushIdle /\ GccIdle /\ ConcIdle
    /\ \E shape \in L0Shapes, pairs \in SUBSET (L0Keys \X L0Lsns) :
          /\ Cardinality(pairs) <= MaxL0Entries
          /\ \A p \in pairs : \E i \in 1..Len(shape) :
                shape[i][1] <= p[2] /\ p[2] < shape[i][2]
          /\ \E file_size \in L0FileSizes :
                l0_layers = [i \in 1..Len(shape) |->
                               DeltaLayerOf(shape[i], pairs)
                               @@ [file_size |-> file_size]]
    /\ l0_conf \in [compaction_threshold : {1, 2}, checkpoint_distance : {1},
                    target_file_size : {1, 3}, owned : {L0Keys, {1, 3}},
                    coverage : L0Coverages]
    /\ l0 = L0Locals("idle")
    /\ l0_result = [res |-> "none"]
    /\ cancel = FALSE
    /\ rwlock = [guard |-> "none", io |-> {}]
    /\ lm = [layers |-> Range(l0_layers), remote |-> << >>, result |-> [res |-> "none"]]

NextL0 == Plan \/ Step \/ Finish \/ Cancel \/ Commit

SpecL0 == InitL0 /\ [][NextL0]_vars

-----------------------------------------------------------------------------
(* GC-compaction of one key: Timeline::generate_key_retention and pipe_to *)

\* the LSNs of the history of the key are drawn from 1..MaxGcLsn
MaxGcLsn == 3

\* a mutant of the test of step 1: an entry at a split point is above it
AboveSplitPoint_OrAt(lsn, split_point) == lsn >= split_point

\* the test of step 1: the LSN is above the split point
AboveSplitPoint(lsn, split_point) == lsn > split_point

RECURSIVE Bucketize(_, _, _, _, _)
\* step 1: the history entries from entry i on are pushed to the bucket of
\* the first split point they are not above
Bucketize(full_history, lsn_split_points, i, current_idx, split_history) ==
    IF i > Len(full_history) THEN split_history
    ELSE IF /\ current_idx < Len(lsn_split_points)
            /\ AboveSplitPoint(full_history[i].lsn, lsn_split_points[current_idx + 1])
    THEN Bucketize(full_history, lsn_split_points, i, current_idx + 1, split_history)
    ELSE Bucketize(full_history, lsn_split_points, i + 1, current_idx,
                   [split_history EXCEPT ![current_idx + 1] =
                                            Append(@, full_history[i])])

\* a mutant of step 2: every record is kept
DedupBucket_KeepAll(split_for_lsn) == split_for_lsn

\* a mutant of step 2: of the entries at one LSN the last one is kept
DedupBucket_KeepLast(split_for_lsn) ==
    LET kept == {n \in 1..Len(split_for_lsn) :
                    n = Len(split_for_lsn)
                    \/ split_for_lsn[n + 1].lsn # split_for_lsn[n].lsn}
        pos == SortedSeq(kept)
    IN [n \in 1..Len(pos) |-> split_for_lsn[pos[n]]]

\* step 2: a record with the LSN of the record before it is dropped
DedupBucket(split_for_lsn) ==
    LET kept == {n \in 1..Len(split_for_lsn) :
                    n = 1 \/ split_for_lsn[n - 1].lsn # split_for_lsn[n].lsn}
        pos == SortedSeq(kept)
    IN [n \in 1..Len(pos) |-> split_for_lsn[pos[n]]]

\* a mutant of the truncation: the replay history is kept whole
TruncateReplay_Whole(replay_history) == replay_history

\* the replay history from its last will_init entry on
TruncateReplay(replay_history) ==
    LET inits == {n \in 1..Len(replay_history) : replay_history[n].val.will_init}
    IN IF inits = {} THEN replay_history
       ELSE SubSeq(replay_history,
                   CHOOSE n \in inits : \A m \in inits : m <= n,
                   Len(replay_history))

RECURSIVE ApplyRecords(_, _)
\* walredo: a will_init record starts the page anew, another record extends it
ApplyRecords(page, records) ==
    IF records = << >> THEN page
    ELSE ApplyRecords(IF Head(records).will_init THEN Head(records).data
                      ELSE page \o Head(records).data,
                      Tail(records))

\* Timeline::reconstruct_value of a history whose first entry is will_init
reconstruct_value(history) ==
    IF history[1].val.tag = "Image"
    THEN ApplyRecords(history[1].val.data,
                      [n \in 1..(Len(history) - 1) |-> history[n + 1].val])
    ELSE ApplyRecords(<< >>, [n \in 1..Len(history) |-> history[n].val])

\* a mutant of the kept bucket: the entries are pushed in reverse order
KeptDeltas_Reversed(split_for_lsn) ==
    [n \in 1..Len(split_for_lsn) |-> split_for_lsn[Len(split_for_lsn) + 1 - n]]

\* deltas: the (LSN, value) pairs of the entries of a bucket that is kept
KeptDeltas(split_for_lsn) ==
    [n \in 1..Len(split_for_lsn) |->
       [lsn |-> split_for_lsn[n].lsn, val |-> split_for_lsn[n].val]]

\* a mutant of generate_image: the threshold must be exceeded
GenerateImage_Above(i, batch_cnt, has_ancestor, records_since_last_image, delta_threshold_cnt) ==
    IF i = 0 /\ ~has_ancestor THEN TRUE
    ELSE IF i = batch_cnt - 1 THEN FALSE
    ELSE records_since_last_image > delta_threshold_cnt

\* generate_image for bucket i (counted from 0)
GenerateImage(i, batch_cnt, has_ancestor, records_since_last_image, delta_threshold_cnt) ==
    IF i = 0 /\ ~has_ancestor THEN TRUE
    ELSE IF i = batch_cnt - 1 THEN FALSE
    ELSE records_since_last_image >= delta_threshold_cnt

RECURSIVE RetainBuckets(_, _, _, _, _, _)
\* step 3: the loop over the buckets from bucket i (counted from 0); images
\* tells for each bucket whether an image was generated for it
RetainBuckets(split_history, lsn_split_points, delta_threshold_cnt, has_ancestor, i, st) ==
    IF i = Len(split_history) THEN st
    ELSE LET split_for_lsn == split_history[i + 1]
             batch_cnt == Len(split_history)
             records_since_last_image == st.records_since_last_image
                                           + Len(split_for_lsn)
             generate_image == GenerateImage(i, batch_cnt, has_ancestor,
                                             records_since_last_image,
                                             delta_threshold_cnt)
             replay_history == TruncateReplay(st.replay_history \o split_for_lsn)
         IN IF replay_history # << >> /\ ~replay_history[1].val.will_init
            THEN [st EXCEPT !.err = <<"invalid history, no base image">>]
            ELSE IF generate_image /\ records_since_last_image > 0
            THEN IF \E n \in 2..Len(replay_history) :
                       replay_history[n].val.tag # "WalRecord"
                 THEN [st EXCEPT !.err = <<"invalid record">>]
                 ELSE LET request_lsn == lsn_split_points[i + 1]
                          img == [lsn |-> request_lsn,
                                  val |-> Image(reconstruct_value(replay_history))]
                      IN RetainBuckets(split_history, lsn_split_points,
                                       delta_threshold_cnt, has_ancestor, i + 1,
                                       [st EXCEPT !.records_since_last_image = 0,
                                                  !.replay_history = <<img>>,
                                                  !.images = Append(@, TRUE),
                                                  !.retention = Append(@, <<img>>)])
            ELSE RetainBuckets(split_history, lsn_split_points,
                               delta_threshold_cnt, has_ancestor, i + 1,
                               [st EXCEPT
                                  !.records_since_last_image = records_since_last_image,
                                  !.replay_history = replay_history,
                                  !.images = Append(@, FALSE),
                                  !.retention = Append(@, KeptDeltas(split_for_lsn))])

\* steps 1 to 3 of generate_key_retention: the locals after the loop over
\* the buckets
RetentionSteps(full_history, horizon, retain_lsn_below_horizon, delta_threshold_cnt, base_img_from_ancestor) ==
    LET lsn_split_points == Append(retain_lsn_below_horizon, horizon)
        buckets == Bucketize(full_history, lsn_split_points, 1, 0,
                             [n \in 1..(Len(retain_lsn_below_horizon) + 2) |-> << >>])
        split_history == [n \in 1..Len(buckets) |-> DedupBucket(buckets[n])]
    IN RetainBuckets(split_history, lsn_split_points, delta_threshold_cnt,
                       base_img_from_ancestor # << >>, 0,
                       [retention |-> << >>, records_since_last_image |-> 0,
                        images |-> << >>,
                        replay_history |->
                            IF base_img_from_ancestor = << >> THEN << >>
                            ELSE <<[lsn |-> base_img_from_ancestor[1].lsn,
                                    val |-> Image(base_img_from_ancestor[1].img)]>>,
                        err |-> << >>])

\* Timeline::generate_key_retention
generate_key_retention(full_history, horizon, retain_lsn_below_horizon, delta_threshold_cnt, base_img_from_ancestor) ==
    LET lsn_split_points == Append(retain_lsn_below_horizon, horizon)
        st == RetentionSteps(full_history, horizon, retain_lsn_below_horizon,
                             delta_threshold_cnt, base_img_from_ancestor)
    IN IF st.err # << >> THEN [res |-> "err", err |-> st.err[1]]
       ELSE [res |-> "ok",
             below_horizon |-> [n \in 1..Len(lsn_split_points) |->
                                  [cutoff_lsn |-> lsn_split_points[n],
                                   logs |-> st.retention[n]]],
             above_horizon |-> st.retention[Len(lsn_split_points) + 1]]

\* KeyHistoryRetention::pipe_to: the values pushed to the delta writer and
\* the images put into the image layer writer, when there is one
pipe_to(retention, has_image_writer) ==
    LET first == retention.below_horizon[1]
        first_is_image == Len(first.logs) = 1 /\ first.logs[1].val.tag = "Image"
        rest == Concat([n \in 1..(Len(retention.below_horizon) - 1) |->
                          retention.below_horizon[n + 1].logs])
                \o retention.above_horizon
    IN IF first_is_image /\ has_image_writer
       THEN [res |-> "ok", image_writer |-> <<first.logs[1].val.data>>,
             delta_writer |-> rest]
       ELSE IF first_is_image
       THEN [res |-> "ok", image_writer |-> << >>,
             delta_writer |-> <<[lsn |-> first.cutoff_lsn, val |-> first.logs[1].val]>>
                              \o rest]
       ELSE [res |-> "ok", image_writer |-> << >>, delta_writer |-> first.logs \o rest]

\* what the history of the key holds at one LSN: nothing, a record that needs
\* a base, a will_init record, an image, or an image and a record
GcKinds == {"none", "d", "di", "i", "id"}

EntriesAt(lsn, kind) ==
    LET d == [lsn |-> lsn, val |-> WalRecord(<<lsn>>, FALSE)]
        di == [lsn |-> lsn, val |-> WalRecord(<<10 + lsn>>, TRUE)]
        i == [lsn |-> lsn, val |-> Image(<<100 + lsn>>)]
    IN CASE kind = "none" -> << >>
         [] kind = "d" -> <<d>>
         [] kind = "di" -> <<di>>
         [] kind = "i" -> <<i>>
         [] kind = "id" -> <<i, d>>

\* the inputs: a history sorted by LSN with the image first at an LSN, a
\* horizon, up to two ascending retain LSNs below it, a delta threshold, and
\* the image of the ancestor at the branch point, LSN 0, when there is one
GcInputs ==
    {[full_history |-> Concat([l \in 1..MaxGcLsn |-> EntriesAt(l, kinds[l])]),
      horizon |-> h,
      retain_lsn_below_horizon |-> SortedSeq(R),
      delta_threshold_cnt |-> t,
      base_img_from_ancestor |-> b] :
        kinds \in [1..MaxGcLsn -> GcKinds],
        h \in 2..MaxGcLsn,
        R \in {S \in SUBSET (1..(MaxGcLsn - 1)) : Cardinality(S) <= 2},
        t \in {2, 5},
        b \in {<< >>, <<[lsn |-> 0, img |-> <<100>>]>>}}

GenerateKeyRetention ==
    /\ gc_out.res = "none"
    /\ gc_out' = generate_key_retention(gc_in.full_history, gc_in.horizon,
                                        gc_in.retain_lsn_below_horizon,
                                        gc_in.delta_threshold_cnt,
                                        gc_in.base_img_from_ancestor)
    /\ UNCHANGED <<non_gc_vars, gc_in, gc_written>>

\* pipe_to as compact_with_gc calls it: with an image layer writer, at the
\* lowest retain LSN, exactly when the timeline has no ancestor
PipeTo ==
    /\ gc_out.res = "ok" /\ gc_written.res = "none"
    /\ gc_written' = pipe_to(gc_out, gc_in.base_img_from_ancestor = << >>)
                     @@ [image_lsn |-> gc_out.below_horizon[1].cutoff_lsn]
    /\ UNCHANGED <<non_gc_vars, gc_in, gc_out>>

InitGc ==
    /\ InitLayer /\ L0Idle /\ ResIdle /\ GateIdle /\ BlobIdle /\ JwkIdle /\ NamesIdle /\ SaIdle /\ FlushIdle /\ GccIdle /\ LmIdle /\ ConcIdle
    /\ gc_in \in {g \in GcInputs :
                    \A n \in 1..Len(g.retain_lsn_below_horizon) :
                       g.retain_lsn_below_horizon[n] < g.horizon}
    /\ gc_out = [res |-> "none"]
    /\ gc_written = [res |-> "none"]

NextGc == GenerateKeyRetention \/ PipeTo

SpecGc == InitGc /\ [][NextGc]_vars

-----------------------------------------------------------------------------
(* GlobalResourceUnits of concurrent layers: new, publish_size, drop *)

\* the file lengths a layer grows to
LayerSizes == {2 * 1024 * 1024, 12 * 1024 * 1024}

\* a mutant of the counter update: the size is added, not the difference
Published_AddsSize(global, self_bytes, size) == global + size

\* the value publish_size leaves in GLOBAL_RESOURCES.dirty_bytes, which is its
\* new_global_dirty_bytes: a load, a fetch_add or a fetch_sub of the difference;
\* the model's integers do not wrap, a wrapped u64 shows as a negative number
Published(global, self_bytes, size) ==
    IF size = self_bytes THEN global
    ELSE IF size > self_bytes THEN global + (size - self_bytes)
    ELSE global - (self_bytes - size)

\* what the publish_size call of handle h returns when it ends in this step:
\* None, or Some of the average over the layers when the ceiling is exceeded
PublishResult(h) ==
    IF g_max_dirty_bytes > 0 /\ units[h].new_global > g_max_dirty_bytes
    THEN <<units[h].new_global \div g_dirty_layers>>
    ELSE << >>

\* the end of a publish_size call of handle h; its locals go out of scope
PublishReturns(h) ==
    units' = [units EXCEPT ![h].pc = IF units[h].dropping THEN "dropped" ELSE "idle",
                           ![h].dirty_bytes = units[h].size,
                           ![h].size = 0,
                           ![h].new_global = 0]

\* GlobalResourceUnits::new, as InMemoryLayer::create calls it
ResCreate(h) ==
    /\ units[h].pc = "none"
    /\ g_dirty_layers' = g_dirty_layers + 1
    /\ units' = [units EXCEPT ![h].pc = "idle"]
    /\ UNCHANGED <<g_dirty_bytes, non_res_vars>>

\* put_batch of layer h: the file grows, and maybe_publish_size calls
\* publish_size when the size drifted from the published one
ResPutBatch(h) ==
    /\ units[h].pc = "idle"
    /\ \E len \in LayerSizes :
          /\ len > units[h].len
          /\ units' = [units EXCEPT
                         ![h].len = len,
                         ![h].size = IF ShouldPublish(units[h].dirty_bytes, len)
                                     THEN len ELSE 0,
                         ![h].pc = IF ShouldPublish(units[h].dirty_bytes, len)
                                   THEN "publish" ELSE "idle"]
    /\ UNCHANGED <<g_dirty_bytes, g_dirty_layers, non_res_vars>>

\* tick of layer h calls publish_size with the file length
ResTick(h) ==
    /\ units[h].pc = "idle"
    /\ units' = [units EXCEPT ![h].size = units[h].len, ![h].pc = "publish"]
    /\ UNCHANGED <<g_dirty_bytes, g_dirty_layers, non_res_vars>>

\* drop of the handle of layer h: fetch_sub on dirty_layers, then it calls
\* publish_size(0)
ResDrop(h) ==
    /\ units[h].pc = "idle"
    /\ g_dirty_layers' = g_dirty_layers - 1
    /\ units' = [units EXCEPT ![h].size = 0, ![h].pc = "publish",
                              ![h].dropping = TRUE]
    /\ UNCHANGED <<g_dirty_bytes, non_res_vars>>

\* publish_size: the atomic operation on GLOBAL_RESOURCES.dirty_bytes
ResPublishCounter(h) ==
    /\ units[h].pc = "publish"
    /\ g_dirty_bytes' = Published(g_dirty_bytes, units[h].dirty_bytes, units[h].size)
    /\ units' = [units EXCEPT ![h].new_global = g_dirty_bytes', ![h].pc = "published"]
    /\ UNCHANGED <<g_dirty_layers, non_res_vars>>

\* publish_size: self.dirty_bytes = size, the load of max_dirty_bytes and the
\* test of the ceiling
ResPublishStore(h) ==
    /\ units[h].pc = "published"
    /\ IF g_max_dirty_bytes > 0 /\ units[h].new_global > g_max_dirty_bytes
       THEN units' = [units EXCEPT ![h].dirty_bytes = units[h].size,
                                   ![h].pc = "divide"]
       ELSE PublishReturns(h)
    /\ UNCHANGED <<g_dirty_bytes, g_dirty_layers, non_res_vars>>

\* publish_size: the load of dirty_layers and the division, which panics on 0
ResPublishDivide(h) ==
    /\ units[h].pc = "divide"
    /\ IF g_dirty_layers = 0
       THEN units' = [units EXCEPT ![h].pc = "panic", ![h].size = 0,
                                   ![h].new_global = 0]
       ELSE PublishReturns(h)
    /\ UNCHANGED <<g_dirty_bytes, g_dirty_layers, non_res_vars>>

\* no layer yet; max_dirty_bytes is unlimited or configured to 2 MiB
InitRes ==
    /\ start_lsn = StartLsn
    /\ end_lsn = << >>
    /\ file = << >>
    /\ index = << >>
    /\ ru_dirty_bytes = 0
    /\ g_dirty_bytes = 0
    /\ g_dirty_layers = 0
    /\ g_max_dirty_bytes \in {0, 2 * 1024 * 1024}
    /\ result = [op |-> "none", res |-> "ok"]
    /\ batched = << >>
    /\ nvalues = 0
    /\ L0Idle /\ GcIdle /\ ResIdle /\ GateIdle /\ BlobIdle /\ JwkIdle /\ NamesIdle /\ SaIdle /\ FlushIdle /\ GccIdle /\ LmIdle /\ ConcIdle

NextRes ==
    \E h \in 1..MaxLayers :
       \/ ResCreate(h)
       \/ ResPutBatch(h)
       \/ ResTick(h)
       \/ ResDrop(h)
       \/ ResPublishCounter(h)
       \/ ResPublishStore(h)
       \/ ResPublishDivide(h)

SpecRes == InitRes /\ [][NextRes]_vars

-----------------------------------------------------------------------------
(* EphemeralFile and the Gate whose guard it holds *)

\* the slots whose GateGuard is outstanding: entered and not yet in a file,
\* or inside a file that is alive
GuardsHeld == {f \in 1..MaxFiles : files[f].st \in {"entered", "alive"}}

\* a mutant of close: it does not wait for the guards
CloseCompletes_NoWait(held) == TRUE

\* Gate::close returns when every guard has been released
CloseCompletes(held) == held = {}

\* Gate::enter for slot f: a guard, or GateClosed once close was called
GateEnter(f) ==
    /\ files[f].st = "none"
    /\ files' = [files EXCEPT ![f].st = IF gate = "open" THEN "entered" ELSE "refused"]
    /\ UNCHANGED <<gate, next_filename, non_gate_vars>>

\* EphemeralFile::create with the guard of slot f: the file name is taken from
\* NEXT_FILENAME, then the file is opened; on an error of the open the guard
\* is dropped with the arguments, else it moves into the file
Create(f) ==
    /\ files[f].st = "entered"
    /\ next_filename' = next_filename + 1
    /\ \E io_ok \in BOOLEAN :
          files' = [files EXCEPT ![f].st = IF io_ok THEN "alive" ELSE "failed",
                                 ![f].name = next_filename]
    /\ UNCHANGED <<gate, non_gate_vars>>

\* drop of the EphemeralFile of slot f, which drops its guard
DropFile(f) ==
    /\ files[f].st = "alive"
    /\ files' = [files EXCEPT ![f].st = "dropped"]
    /\ UNCHANGED <<gate, next_filename, non_gate_vars>>

\* Gate::close is called and starts to wait
GateClose ==
    /\ gate = "open"
    /\ gate' = "closing"
    /\ UNCHANGED <<files, next_filename, non_gate_vars>>

\* Gate::close returns
GateClosed ==
    /\ gate = "closing"
    /\ CloseCompletes(GuardsHeld)
    /\ gate' = "closed"
    /\ UNCHANGED <<files, next_filename, non_gate_vars>>

NextGate ==
    \/ \E f \in 1..MaxFiles : GateEnter(f) \/ Create(f) \/ DropFile(f)
    \/ GateClose
    \/ GateClosed

\* the task that awaits close is polled until it is ready
SpecGate == Init /\ [][NextGate]_vars /\ WF_vars(GateClosed)

-----------------------------------------------------------------------------
(* One EphemeralFile: write_blob, write_raw and read_blob *)

\* write calls made on the file
MaxWrites == 3

\* the bytes of a blob of len bytes, different for every seed
BlobData(len, seed) == [i \in 1..len |-> (31 * seed + 7 * i) % 256]

\* the calls: a blob with a one byte header, one with a four byte header, one
\* longer than a page, a blob whose payload write fails, one whose header
\* write fails, and a raw write that moves the next header to a page boundary
WriteInputs ==
    {[kind |-> "blob", len |-> 3, outcome |-> "ok"],
     [kind |-> "blob", len |-> 130, outcome |-> "ok"],
     [kind |-> "blob", len |-> PAGE_SZ + 4, outcome |-> "ok"],
     [kind |-> "blob", len |-> 130, outcome |-> "payload_err"],
     [kind |-> "blob", len |-> 3, outcome |-> "header_err"],
     [kind |-> "raw", len |-> PAGE_SZ - 10, outcome |-> "ok"]}

\* a mutant of write_blob: the position is taken after the length field
write_blob_PosAfterHeader(f, srcbuf, outcome) ==
    LET len_bytes == write_blob_length(Len(srcbuf))
    IN IF outcome = "header_err" THEN [file |-> f, ok |-> FALSE]
       ELSE IF outcome = "payload_err" THEN [file |-> f \o len_bytes, ok |-> FALSE]
       ELSE [file |-> f \o len_bytes \o srcbuf, ok |-> TRUE,
             pos |-> Len(f) + Len(len_bytes)]

\* EphemeralFile::write_blob: the position is bytes_written, then the length
\* field is written, then the payload; an error of a write returns at once
write_blob(f, srcbuf, outcome) ==
    LET pos == Len(f)
        len_bytes == write_blob_length(Len(srcbuf))
    IN IF outcome = "header_err" THEN [file |-> f, ok |-> FALSE]
       ELSE IF outcome = "payload_err" THEN [file |-> f \o len_bytes, ok |-> FALSE]
       ELSE [file |-> f \o len_bytes \o srcbuf, ok |-> TRUE, pos |-> pos]

\* EphemeralFile::write_raw: the payload alone
write_raw(f, srcbuf, outcome) ==
    IF outcome = "ok" THEN [file |-> f \o srcbuf, ok |-> TRUE, pos |-> Len(f)]
    ELSE [file |-> f, ok |-> FALSE]

\* one write call; the log keeps what was asked and what came back
Write ==
    /\ Len(ef_log) < MaxWrites
    /\ \E in \in WriteInputs :
          LET seed == Len(ef_log) + 1
              srcbuf == BlobData(in.len, seed)
              out == IF in.kind = "blob" THEN write_blob(ef_file, srcbuf, in.outcome)
                     ELSE write_raw(ef_file, srcbuf, in.outcome)
          IN /\ ef_file' = out.file
             /\ ef_log' = Append(ef_log, [kind |-> in.kind, len |-> in.len,
                                          outcome |-> in.outcome,
                                          pos |-> IF out.ok THEN out.pos ELSE 0])
    /\ UNCHANGED <<ef_read, non_blob_vars>>

\* read_blob at the offset that the write call number i returned
ReadBlob ==
    /\ \E i \in 1..Len(ef_log) :
          /\ ef_log[i].kind = "blob" /\ ef_log[i].outcome = "ok"
          /\ ef_read' = [at |-> i, res |-> read_blob(ef_file, ef_log[i].pos)]
    /\ UNCHANGED <<ef_file, ef_log, non_blob_vars>>

NextBlob == Write \/ ReadBlob

SpecBlob == Init /\ [][NextBlob]_vars

-----------------------------------------------------------------------------
(* GC-compaction of a timeline: Timeline::compact_with_gc *)

COMPACTION_DELTA_THRESHOLD == 5

\* the keys of the layers of the timeline
GccKeys == {1, 2}

\* PersistentLayerDesc::key
LayerKey(l) == [key_range |-> l.key_range, lsn_range |-> l.lsn_range,
                is_delta |-> l.is_delta]

\* the full key range of an image layer, which ends one below Key::MAX
hack_image_layer_range == <<KeyMin, KeyMax - 1>>

\* PersistentLayerDesc::image_layer_lsn_range
image_layer_lsn_range(lsn) == <<lsn, lsn + 1>>

\* a delta layer of the timeline with a record at every (key, lsn) of pairs
GccDelta(key_range, lsn_range, pairs, generation) ==
    LET seq == SortedSeq({100 * p[1] + p[2] : p \in pairs})
    IN [key_range |-> key_range, lsn_range |-> lsn_range, is_delta |-> TRUE,
        generation |-> generation,
        entries |-> [i \in 1..Len(seq) |->
                       [key |-> seq[i] \div 100, lsn |-> seq[i] % 100,
                        val |-> WalRecord(<<seq[i]>>, FALSE)]]]

\* an image layer of the timeline with the images of all keys at lsn
GccImage(lsn, generation) ==
    LET seq == SortedSeq(GccKeys)
    IN [key_range |-> hack_image_layer_range, lsn_range |-> image_layer_lsn_range(lsn),
        is_delta |-> FALSE, generation |-> generation,
        entries |-> [i \in 1..Len(seq) |->
                       [key |-> seq[i], lsn |-> lsn, val |-> Image(<<1000 + seq[i]>>)]]]

\* the layers a timeline is made of
GccLayerPool(generation) ==
    {GccImage(1, generation), GccImage(2, generation),
     GccDelta(<<1, 2>>, <<2, 4>>, {<<1, 2>>, <<1, 3>>}, generation),
     GccDelta(<<2, 3>>, <<2, 4>>, {<<2, 2>>, <<2, 3>>}, generation),
     GccDelta(<<1, 3>>, <<3, 5>>, {<<1, 3>>, <<2, 4>>}, generation)}

RECURSIVE SetToSeq(_)
SetToSeq(S) ==
    IF S = {} THEN << >>
    ELSE LET x == CHOOSE x \in S : TRUE IN <<x>> \o SetToSeq(S \ {x})

\* MergeIterator over the selected layers: their entries by key, then LSN,
\* an image before a record of the same LSN
MergeIterator(layers) ==
    LET ls == SetToSeq(layers)
        all == Concat([i \in 1..Len(ls) |-> ls[i].entries])
        rank == [i \in 1..Len(all) |->
                   10000 * all[i].key + 10 * all[i].lsn
                   + (IF all[i].val.tag = "Image" THEN 0 ELSE 1)]
        order == SortIdx(rank, 1..Len(all))
    IN [i \in 1..Len(all) |-> all[order[i]]]

\* get_ancestor_image: the page of the key at the branch point, LSN 0, when
\* the timeline has an ancestor
get_ancestor_image(key) ==
    IF tl.has_ancestor THEN <<[lsn |-> 0, img |-> <<500 + key>>]>> ELSE << >>

RECURSIVE AdvanceSplit(_, _, _)
\* the while loop of flush_deltas over the split points
AdvanceSplit(delta_split_points, current, last_key) ==
    IF current < Len(delta_split_points) /\ last_key >= delta_split_points[current + 1]
    THEN AdvanceSplit(delta_split_points, current + 1, last_key)
    ELSE current

\* a mutant of the duplicate test of flush_deltas: no layer is a duplicate
IsDuplicate_Never(layer_key) == FALSE

\* the LayerMap holds a layer with this key that was written in the
\* generation of the timeline
IsDuplicate(layer_key) ==
    \E l \in tl.layers : LayerKey(l) = layer_key /\ l.generation = tl.generation

\* compact_with_gc::flush_deltas. out is the Option it returns; io_ok = FALSE
\* is a failed DeltaLayerWriter call.
flush_deltas(deltas, last_key, delta_split_points, current_delta_split_point, lowest_retain_lsn, last_batch, io_ok) ==
    LET current == AdvanceSplit(delta_split_points, current_delta_split_point, last_key)
        need_split == current > current_delta_split_point
        lsns == {deltas[i].lsn : i \in 1..Len(deltas)}
        delta_end_lsn == (CHOOSE m \in lsns : \A l \in lsns : l <= m) + 1
        delta_key == [key_range |-> <<deltas[1].key, KeyNext(Last(deltas).key)>>,
                      lsn_range |-> <<lowest_retain_lsn, delta_end_lsn>>,
                      is_delta |-> TRUE]
    IN IF ~need_split /\ ~last_batch
       THEN [ok |-> TRUE, out |-> << >>, deltas |-> deltas, current |-> current]
       ELSE IF deltas = << >>
       THEN [ok |-> TRUE, out |-> << >>, deltas |-> << >>, current |-> current]
       ELSE IF IsDuplicate(delta_key)
       THEN [ok |-> TRUE, out |-> <<[kind |-> "KeepLayer", key |-> delta_key]>>,
             deltas |-> << >>, current |-> current]
       ELSE IF ~io_ok
       THEN [ok |-> FALSE, out |-> << >>, deltas |-> << >>, current |-> current]
       ELSE IF tl.dry_run
       THEN [ok |-> TRUE, out |-> << >>, deltas |-> << >>, current |-> current]
       ELSE [ok |-> TRUE,
             out |-> <<[kind |-> "CreateResidentLayer",
                        layer |-> delta_key @@ [generation |-> tl.generation,
                                                entries |-> deltas]]>>,
             deltas |-> << >>, current |-> current]

\* the key of the image layer that compact_with_gc writes
image_layer_key(lowest_retain_lsn) ==
    [key_range |-> hack_image_layer_range,
     lsn_range |-> image_layer_lsn_range(lowest_retain_lsn), is_delta |-> FALSE]

\* what compact_with_gc does with the accumulated values of one key:
\* generate_key_retention, pipe_to and flush_deltas, on the locals g
GccProcessKey(g, last_batch, io_ok) ==
    LET last_key == g.last_key[1]
        acc == g.accumulated_values
        retention == generate_key_retention(
                         [i \in 1..Len(acc) |-> [lsn |-> acc[i].lsn, val |-> acc[i].val]],
                         tl.gc_cutoff, g.retain_lsns_below_horizon,
                         COMPACTION_DELTA_THRESHOLD, get_ancestor_image(last_key))
        piped == pipe_to(retention, g.image_layer_writer # << >>)
        delta_values == g.delta_values
                        \o [i \in 1..Len(piped.delta_writer) |->
                              [key |-> last_key, lsn |-> piped.delta_writer[i].lsn,
                               val |-> piped.delta_writer[i].val]]
        image_layer_writer ==
            IF g.image_layer_writer = << >> THEN << >>
            ELSE <<g.image_layer_writer[1]
                   \o [i \in 1..Len(piped.image_writer) |->
                         [key |-> last_key, lsn |-> g.lowest_retain_lsn,
                          val |-> Image(piped.image_writer[i])]]>>
        flushed == flush_deltas(delta_values, last_key, g.delta_split_points,
                                g.current_delta_split_point, g.lowest_retain_lsn,
                                last_batch, io_ok)
    IN IF retention.res # "ok" THEN [ok |-> FALSE, msg |-> retention.err]
       ELSE IF ~flushed.ok THEN [ok |-> FALSE, msg |-> "io"]
       ELSE [ok |-> TRUE,
             g |-> [g EXCEPT !.delta_values = flushed.deltas,
                             !.current_delta_split_point = flushed.current,
                             !.delta_layers = @ \o flushed.out,
                             !.image_layer_writer = image_layer_writer]]

\* compact_with_gc returns r; the guard of gc_lock, if it was taken, is dropped
GccReturn(r) ==
    /\ gcc' = [GccLocals("done") EXCEPT !.result = r]
    /\ tl' = [tl EXCEPT !.gc_lock = IF gcc.phase = "loop" THEN "free" ELSE @]

\* the select on gc_lock takes the branch of the cancellation token
GccStartCancelled ==
    /\ gcc.phase = "idle" /\ tl.cancel
    /\ GccReturn([res |-> "err", err |-> "Other", msg |-> "cancelled"])
    /\ UNCHANGED non_gcc_vars

\* compact_with_gc from the acquisition of gc_lock to the merge loop: the
\* layer selection, the split points, the merge iterator, the image layer
\* writer. io_ok = FALSE is a failed download or writer creation.
compact_with_gc_select(io_ok) ==
    LET below == {lsn \in tl.retain_lsns : lsn < tl.gc_cutoff}
        retain_lsns_below_horizon == SortedSeq(below)
        layer_selection == {l \in tl.layers : l.lsn_range[1] <= tl.gc_cutoff}
        lowest_retain_lsn == IF tl.has_ancestor THEN 0 + 1
                             ELSE IF retain_lsns_below_horizon # << >>
                             THEN retain_lsns_below_horizon[1]
                             ELSE tl.gc_cutoff
        deltas == {l \in layer_selection : l.is_delta}
    IN IF ~io_ok
       THEN /\ gcc' = [GccLocals("done") EXCEPT
                         !.result = [res |-> "err", err |-> "Other", msg |-> "io"]]
            /\ UNCHANGED tl
       ELSE /\ gcc' = [GccLocals("loop") EXCEPT
                         !.layer_selection = layer_selection,
                         !.lowest_retain_lsn = lowest_retain_lsn,
                         !.retain_lsns_below_horizon = retain_lsns_below_horizon,
                         !.delta_split_points =
                             SortedSeq({l.key_range[1] : l \in deltas}
                                       \cup {l.key_range[2] : l \in deltas}),
                         !.merge_iter = MergeIterator(layer_selection),
                         !.image_layer_writer = IF tl.has_ancestor THEN << >>
                                                ELSE << << >> >>,
                         !.discard_image_layer =
                             IsDuplicate(image_layer_key(lowest_retain_lsn))]
            /\ tl' = [tl EXCEPT !.gc_lock = "compaction"]

GccStart ==
    /\ gcc.phase = "idle" /\ tl.gc_lock = "free"
    /\ \E io_ok \in BOOLEAN : compact_with_gc_select(io_ok)
    /\ UNCHANGED non_gcc_vars

\* one iteration of the merge loop of compact_with_gc
compact_with_gc_step(io_ok) ==
    LET e == gcc.merge_iter[gcc.pos]
        done == GccProcessKey(gcc, FALSE, io_ok)
    IN IF tl.cancel
       THEN GccReturn([res |-> "err", err |-> "Other", msg |-> "cancelled"])
       ELSE IF gcc.last_key = << >> \/ gcc.last_key = <<e.key>>
       THEN /\ gcc' = [gcc EXCEPT !.last_key = <<e.key>>,
                                  !.accumulated_values = Append(@, e),
                                  !.pos = @ + 1]
            /\ UNCHANGED tl
       ELSE IF ~done.ok
       THEN GccReturn([res |-> "err", err |-> "Other", msg |-> done.msg])
       ELSE /\ gcc' = [done.g EXCEPT !.last_key = <<e.key>>,
                                     !.accumulated_values = <<e>>,
                                     !.pos = @ + 1]
            /\ UNCHANGED tl

GccStep ==
    /\ gcc.phase = "loop" /\ gcc.pos <= Len(gcc.merge_iter)
    /\ \E io_ok \in BOOLEAN : compact_with_gc_step(io_ok)
    /\ UNCHANGED non_gcc_vars

\* a mutant of the commit: the kept layers are removed with the selection
Retained_All(layer_selection, keep_layers) == layer_selection

\* layer_selection.retain: the layers that the commit removes
Retained(layer_selection, keep_layers) ==
    {l \in layer_selection : LayerKey(l) \notin keep_layers}

\* LayerManager::finish_gc_compaction on the layers of the LayerMap
finish_gc_compaction(layers, compact_from, compact_to) ==
    (layers \ compact_from) \cup compact_to

\* compact_with_gc after the last flush_deltas, with the locals g: the image
\* layer, the layers to keep and to remove, the commit. io_ok = FALSE is a
\* failed finish of the image layer writer, sched_ok = FALSE a failed
\* schedule_compaction_update.
compact_with_gc_commit(g, io_ok, sched_ok) ==
    LET image_layer ==
            IF g.discard_image_layer \/ g.image_layer_writer = << >> \/ tl.dry_run
            THEN {}
            ELSE {image_layer_key(g.lowest_retain_lsn)
                  @@ [generation |-> tl.generation, entries |-> g.image_layer_writer[1]]}
        compact_to == {g.delta_layers[i].layer :
                         i \in {i \in 1..Len(g.delta_layers) :
                                  g.delta_layers[i].kind = "CreateResidentLayer"}}
                      \cup image_layer
        keep_layers == {g.delta_layers[i].key :
                          i \in {i \in 1..Len(g.delta_layers) :
                                   g.delta_layers[i].kind = "KeepLayer"}}
                       \cup (IF g.discard_image_layer
                             THEN {image_layer_key(g.lowest_retain_lsn)} ELSE {})
        layer_selection == Retained(g.layer_selection, keep_layers)
        committed == finish_gc_compaction(tl.layers, layer_selection, compact_to)
    IN IF ~io_ok /\ image_layer # {}
       THEN GccReturn([res |-> "err", err |-> "Other", msg |-> "io"])
       ELSE IF tl.dry_run
       THEN GccReturn([res |-> "ok", compact_to |-> {}, keep_layers |-> keep_layers])
       ELSE /\ gcc' = [GccLocals("done") EXCEPT
                         !.layer_selection = layer_selection,
                         !.result = IF sched_ok
                                    THEN [res |-> "ok", compact_to |-> compact_to,
                                          keep_layers |-> keep_layers]
                                    ELSE [res |-> "err", err |-> "Other",
                                          msg |-> "schedule"]]
            /\ tl' = [tl EXCEPT
                        !.layers = committed,
                        !.gc_lock = "free",
                        !.remote = IF sched_ok
                                   THEN Append(@, [remove |-> layer_selection,
                                                   add |-> compact_to])
                                   ELSE @]

\* compact_with_gc after the merge loop: the last key, then the commit.
\* io_ok = FALSE is a failed write of a layer.
compact_with_gc_finish(io_ok, sched_ok) ==
    LET done == GccProcessKey(gcc, TRUE, io_ok)
    IN IF gcc.last_key = << >>
       THEN \* the expect on last_key panics
            GccReturn([res |-> "panic"])
       ELSE IF ~done.ok
       THEN GccReturn([res |-> "err", err |-> "Other", msg |-> done.msg])
       ELSE compact_with_gc_commit(done.g, io_ok, sched_ok)

GccFinish ==
    /\ gcc.phase = "loop" /\ gcc.pos > Len(gcc.merge_iter)
    /\ \E io_ok \in BOOLEAN, sched_ok \in BOOLEAN : compact_with_gc_finish(io_ok, sched_ok)
    /\ UNCHANGED non_gcc_vars

\* the cancellation token is set
GccCancel ==
    /\ ~tl.cancel /\ gcc.phase # "done"
    /\ tl' = [tl EXCEPT !.cancel = TRUE]
    /\ UNCHANGED <<gcc, non_gcc_vars>>

\* the GC task that holds gc_lock lets it go
GccGcUnlock ==
    /\ tl.gc_lock = "gc"
    /\ tl' = [tl EXCEPT !.gc_lock = "free"]
    /\ UNCHANGED <<gcc, non_gcc_vars>>

\* a timeline of generation 2 with some layers of the pool, all written in
\* generation 1 or all in generation 2
InitGcc ==
    /\ InitLayer /\ L0Idle /\ GcIdle /\ ResIdle /\ GateIdle /\ BlobIdle /\ JwkIdle /\ NamesIdle /\ SaIdle /\ FlushIdle /\ LmIdle
    /\ ConcIdle
    /\ \E generation \in {1, 2} : \E layers \in SUBSET GccLayerPool(generation) :
          /\ layers # {}
          /\ tl \in [layers : {layers}, generation : {2}, gc_cutoff : {2, 3},
                     retain_lsns : {{}, {1}}, has_ancestor : BOOLEAN,
                     dry_run : BOOLEAN, gc_lock : {"free", "gc"}, cancel : {FALSE},
                     remote : {<< >>}]
    /\ gcc = GccLocals("idle")

NextGcc ==
    GccStartCancelled \/ GccStart \/ GccStep \/ GccFinish \/ GccCancel \/ GccGcUnlock

SpecGcc == InitGcc /\ [][NextGcc]_vars

-----------------------------------------------------------------------------
(* Properties of the write path, checked under Spec *)

C2_IndexPointsAtBatchedValue ==
    \A k \in DOMAIN index : \A i \in 1..Len(index[k]) :
        LET lsn == index[k][i][1]
            off == index[k][i][2]
            blob == read_blob(file, off)
        IN /\ <<k, lsn>> \in DOMAIN batched
           /\ off = batched[<<k, lsn>>].base + batched[<<k, lsn>>].rel
           /\ off < Len(file)
           /\ blob.ok
           /\ Des(blob.buf) = [ok |-> TRUE, val |-> batched[<<k, lsn>>].val]

\* two batches went in; an image with a four byte header sits behind the first
C2_Witness ==
    /\ result.op = "put_batch" /\ result.res = "ok"
    /\ \E p \in DOMAIN batched :
          /\ batched[p].base > 0
          /\ batched[p].val = LongImage
          /\ \E i \in 1..Len(index[p[1]]) : index[p[1]][i] = <<p[2], batched[p].base>>

\* C10: end_lsn is set at most once. A freeze(E) of an Open layer with
\* start_lsn < E sets end_lsn to E; a freeze with E <= start_lsn and a freeze
\* of a Frozen layer are rejected with end_lsn unchanged; a set end_lsn never
\* changes again.
C10_EndLsnSetOnce ==
    [][/\ end_lsn # << >> => end_lsn' = end_lsn
       /\ end_lsn' # end_lsn => result'.op = "freeze"
       /\ result'.op = "freeze"
            => IF end_lsn = << >> /\ start_lsn < result'.lsn
               THEN end_lsn' = <<result'.lsn>>
               ELSE end_lsn' = end_lsn /\ result'.res = "panic"]_vars

\* a second freeze, with an acceptable E, was rejected
C10_Witness ==
    /\ result.op = "freeze" /\ result.res = "panic"
    /\ start_lsn < result.lsn
    /\ end_lsn # << >> /\ end_lsn # <<result.lsn>>

-----------------------------------------------------------------------------
(* Properties of the flush, checked under SpecFlush *)

\* C3: write_to_disk of a frozen layer with no key range produces a delta
\* layer with LSN range [start_lsn, end_lsn) whose entries are the (key, lsn)
\* pairs of the index, each once, in ascending (key, lsn) order, each with the
\* value that was batched for it (an empty index yields no layer).
C3_FlushPreservesHistory ==
    (result.op = "write_to_disk" /\ result.res = "ok" /\ result.key_range = << >>)
    => IF index = << >> THEN result.delta = << >>
       ELSE /\ result.delta # << >>
            /\ LET d == result.delta[1]
               IN /\ d.lsn_range = <<start_lsn, end_lsn[1]>>
                  /\ {<<d.entries[n].key, d.entries[n].lsn>> : n \in 1..Len(d.entries)}
                       = UNION {{<<k, index[k][i][1]>> : i \in 1..Len(index[k])} :
                                  k \in DOMAIN index}
                  /\ \A n \in 1..(Len(d.entries) - 1) :
                        \/ d.entries[n].key < d.entries[n + 1].key
                        \/ /\ d.entries[n].key = d.entries[n + 1].key
                           /\ d.entries[n].lsn < d.entries[n + 1].lsn
                  /\ \A n \in 1..Len(d.entries) :
                        LET e == d.entries[n]
                            v == batched[<<e.key, e.lsn>>].val
                        IN /\ Des(e.val) = [ok |-> TRUE, val |-> v]
                           /\ e.will_init = v.will_init

\* a flush wrote two versions, one of them the long image
C3_Witness ==
    /\ result.op = "write_to_disk" /\ result.res = "ok" /\ result.key_range = << >>
    /\ result.delta # << >>
    /\ Len(result.delta[1].entries) = 2
    /\ \E n \in 1..2 : Des(result.delta[1].entries[n].val).val = LongImage
    /\ \E n \in 1..2 : Des(result.delta[1].entries[n].val).val # LongImage

-----------------------------------------------------------------------------
(* Properties of the read path, checked under SpecRead *)

\* the layer of the small blobs scenario: one batch of three images
Foo == Image(<<102, 111, 111>>)
Bar == Image(<<98, 97, 114>>)
Baz == Image(<<98, 97, 122>>)

ScenarioBatch ==
    <<[key |-> 1, lsn |-> 10, size |-> Len(Ser(Foo)), val |-> Foo],
      [key |-> 1, lsn |-> 20, size |-> Len(Ser(Bar)), val |-> Bar],
      [key |-> 2, lsn |-> 15, size |-> Len(Ser(Baz)), val |-> Baz]>>

ScenarioLayer ==
    LET sb == from_values(ScenarioBatch)
        st == ApplyOffsets([ok |-> TRUE, index |-> << >>, hist |-> << >>],
                           sb.offsets, ScenarioBatch, 0, 1)
    IN [file |-> sb.raw, index |-> st.index]

\* what a read of key k of the scenario layer with bound L feeds
ScenarioRead(k, L) ==
    get_values_reconstruct_data(ScenarioLayer.index, ScenarioLayer.file, 1,
                                <<k, k + 1>>, L, [j \in Keys |-> << >>])[k].fed

\* the indexed LSNs of key k from floor up to, and without, bound
LsnsWithin(k, floor, bound) ==
    {index[k][i][1] : i \in {j \in 1..Len(index[k]) :
                                floor <= index[k][j][1] /\ index[k][j][1] < bound}}

\* C9: a read with bound L feeds, for every indexed key of the range, the
\* values of the indexed LSNs below L and not below the floor (the LSN after
\* the cached one, else start_lsn), from the greatest downwards without a gap
\* until an image or will_init record, and nothing when there is no such LSN;
\* in the scenario layer bound 11 on key 1 feeds foo, 21 bar, bound 16 on key 2
\* baz, and bound 15 on key 2 nothing.
C9_ReadDescendsBelowBound ==
    /\ ScenarioRead(1, 11) = <<<<10, Foo>>>>
    /\ ScenarioRead(1, 21) = <<<<20, Bar>>>>
    /\ ScenarioRead(2, 16) = <<<<15, Baz>>>>
    /\ ScenarioRead(2, 15) = << >>
    /\ result.op = "get_values"
       => \A k \in Keys :
            IF ~(k \in DOMAIN index /\ result.range[1] <= k /\ k < result.range[2])
            THEN k \notin DOMAIN result.state
            ELSE LET floor == IF result.cached[k] = << >> THEN start_lsn
                              ELSE result.cached[k][1] + 1
                     cand == LsnsWithin(k, floor, result.end_lsn)
                     fed == result.state[k].fed
                     done(n) == fed[n][2].tag = "Image" \/ fed[n][2].will_init
                 IN /\ result.state[k].err = << >>
                    /\ cand = {} => fed = << >>
                    /\ cand # {} => /\ fed # << >>
                                    /\ \A l \in cand : l <= fed[1][1]
                    /\ \A n \in 1..Len(fed) :
                          /\ fed[n][1] \in cand
                          /\ fed[n][2] = batched[<<k, fed[n][1]>>].val
                    /\ \A n \in 1..(Len(fed) - 1) :
                          /\ fed[n][1] > fed[n + 1][1]
                          /\ ~done(n)
                          /\ \A l \in cand : ~(fed[n + 1][1] < l /\ l < fed[n][1])
                    /\ fed # << >> =>
                          \/ done(Len(fed))
                          \/ \A l \in cand : fed[Len(fed)][1] <= l

\* the statement with the bound taken as inclusive: a read without cached LSNs
\* starts at the greatest indexed LSN at or below L
C9_ReadStartsAtOrBelowBound ==
    (result.op = "get_values" /\ \A k \in Keys : result.cached[k] = << >>)
    => \A k \in DOMAIN result.state :
         LET cand == LsnsWithin(k, start_lsn, result.end_lsn + 1)
             fed == result.state[k].fed
         IN /\ cand = {} => fed = << >>
            /\ cand # {} => /\ fed # << >>
                            /\ \A l \in cand : l <= fed[1][1]

\* a read whose bound is an indexed LSN of the key fed the version below it
C9_Witness ==
    /\ result.op = "get_values"
    /\ \E k \in DOMAIN result.state :
          /\ Len(index[k]) = 2
          /\ index[k][2][1] = result.end_lsn
          /\ result.cached[k] = << >>
          /\ Len(result.state[k].fed) = 1
          /\ result.state[k].fed[1][1] = index[k][1][1]

-----------------------------------------------------------------------------
(* Properties of L0 -> L1 compaction, checked under SpecL0 *)

\* the positions <<i, j>> of the output layers that hold (key, lsn)
OutputsAt(new_layers, key, lsn) ==
    UNION {{<<i, j>> : j \in {j \in 1..Len(new_layers[i].entries) :
                                /\ new_layers[i].entries[j].key = key
                                /\ new_layers[i].entries[j].lsn = lsn}} :
             i \in 1..Len(new_layers)}

\* C4: when compact_level0_phase1 has compacted a run of L0 layers, every
\* (key, lsn) of the selected layers whose key the shard owns is in exactly one
\* entry of exactly one output layer, with its value, and every key of every
\* output layer is owned by the shard.
C4_L0CompactionCoversOwnedKeys ==
    (l0_result.res = "ok" /\ l0_result.deltas_to_compact # << >>)
    => LET outs == l0_result.new_layers
           inputs == UNION {Range(l0_layers[i].entries) :
                              i \in Range(l0_result.deltas_to_compact)}
       IN /\ \A e \in inputs :
                e.key \in l0_conf.owned
                => /\ Cardinality(OutputsAt(outs, e.key, e.lsn)) = 1
                   /\ \A p \in OutputsAt(outs, e.key, e.lsn) :
                         outs[p[1]].entries[p[2]].val = e.val
          /\ \A i \in 1..Len(outs) : \A j \in 1..Len(outs[i].entries) :
                outs[i].entries[j].key \in l0_conf.owned

\* a compaction of two layers that dropped a key of another shard and wrote
\* two output layers
C4_Witness ==
    /\ l0_result.res = "ok"
    /\ Len(l0_result.deltas_to_compact) = 2
    /\ Len(l0_result.new_layers) = 2
    /\ \E i \in 1..2 : \E j \in 1..Len(l0_layers[i].entries) :
          l0_layers[i].entries[j].key \notin l0_conf.owned

-----------------------------------------------------------------------------
(* Properties of GC-compaction of one key, checked under SpecGc *)

\* the page a read at LSN R reconstructs from a log sorted by LSN: the values
\* at or below R from the last will_init one on, applied in order
PageFromLog(log, R) ==
    LET upto == SelectSeq(log, LAMBDA e : e.lsn <= R)
        replay == TruncateReplay(upto)
    IN IF replay = << >> \/ ~replay[1].val.will_init THEN [ok |-> FALSE]
       ELSE [ok |-> TRUE,
             page |-> ApplyRecords(<< >>, [n \in 1..Len(replay) |-> replay[n].val])]

\* the image of the ancestor as the first value of a log
AncestorLog ==
    IF gc_in.base_img_from_ancestor = << >> THEN << >>
    ELSE <<[lsn |-> gc_in.base_img_from_ancestor[1].lsn,
            val |-> Image(gc_in.base_img_from_ancestor[1].img)]>>

\* the page at R before the compaction: from the history of the key, in which
\* the image of an LSN stands for the record of that LSN, on the ancestor image
PageBefore(R) ==
    LET h == gc_in.full_history
        kept == SelectSeq([n \in 1..Len(h) |-> <<n, h[n]>>],
                          LAMBDA x : x[1] = 1 \/ h[x[1] - 1].lsn # x[2].lsn)
    IN PageFromLog(AncestorLog \o [n \in 1..Len(kept) |-> kept[n][2]], R)

\* the page at R after the compaction: from the image layer and the values
\* handed to the delta writer, on the ancestor image
PageAfter(R) ==
    PageFromLog(AncestorLog
                \o [n \in 1..Len(gc_written.image_writer) |->
                      [lsn |-> gc_written.image_lsn,
                       val |-> Image(gc_written.image_writer[n])]]
                \o gc_written.delta_writer, R)

\* C5: for every retain LSN R, and for the horizon, when the key has a value
\* at or below R the page reconstructed at R from what generate_key_retention
\* and pipe_to wrote is the page reconstructed at R from the full history.
C5_RetentionPreservesPages ==
    gc_written.res = "ok"
    => \A R \in Range(gc_in.retain_lsn_below_horizon) \cup {gc_in.horizon} :
          (\E n \in 1..Len(gc_in.full_history) : gc_in.full_history[n].lsn <= R)
          => /\ PageBefore(R).ok
             /\ PageAfter(R) = PageBefore(R)

\* a retention with an image generated at a retain LSN above the lowest one,
\* from an image and two records one of which shares the LSN of the image
C5_Witness ==
    /\ gc_written.res = "ok"
    /\ Len(gc_in.retain_lsn_below_horizon) = 2
    /\ Len(gc_in.full_history) = 4
    /\ gc_out.below_horizon[2].logs # << >>
    /\ gc_out.below_horizon[2].logs[1].val.tag = "Image"
    /\ gc_out.below_horizon[2].logs[1].val.data
         \notin {gc_in.full_history[n].val.data : n \in 1..4}

-----------------------------------------------------------------------------
(* Properties of the resource accounting, checked under SpecRes *)

\* the handles that exist and whose drop has not begun
LiveUnits == {h \in 1..MaxLayers : units[h].pc \notin {"none", "dropped", "panic"}
                                   /\ ~units[h].dropping}

\* a publish_size call is between its entry and its return
PublishInProgress == \E h \in 1..MaxLayers : units[h].pc \in {"publish", "published", "divide"}

RECURSIVE SumPublished(_)
SumPublished(H) ==
    IF H = {} THEN 0
    ELSE LET h == CHOOSE h \in H : TRUE
         IN units[h].dirty_bytes + SumPublished(H \ {h})

\* C6: in every state where no publish_size call is in progress, dirty_bytes
\* is the sum of the published sizes of the live handles and dirty_layers is
\* their number; the counters never go below 0, and both are 0 when every
\* layer has been dropped.
C6_CountersMatchLiveHandles ==
    /\ ~PublishInProgress
       => /\ g_dirty_bytes = SumPublished(LiveUnits)
          /\ g_dirty_layers = Cardinality(LiveUnits)
    /\ g_dirty_bytes >= 0
    /\ g_dirty_layers >= 0
    /\ (\A h \in 1..MaxLayers : units[h].pc \in {"dropped", "panic"})
       => g_dirty_bytes = 0 /\ g_dirty_layers = 0

\* two live layers with different published sizes and no call in progress
C6_Witness ==
    /\ ~PublishInProgress
    /\ Cardinality(LiveUnits) = 2
    /\ \E h1, h2 \in LiveUnits :
          /\ units[h1].dirty_bytes > units[h2].dirty_bytes
          /\ units[h2].dirty_bytes > 0

-----------------------------------------------------------------------------
(* Properties of the gate, checked under SpecGate *)

\* C7: close of the gate has not returned while an EphemeralFile created with
\* one of its guards is alive, and when close is waiting and every guard has
\* been released (every file dropped) it returns.
C7_GateWaitsForFiles ==
    /\ [](gate = "closed" => \A f \in 1..MaxFiles : files[f].st # "alive")
    /\ ((gate = "closing" /\ GuardsHeld = {}) ~> gate = "closed")

\* close is waiting for a file that is alive after another one was dropped
C7_Witness ==
    /\ gate = "closing"
    /\ \E f1, f2 \in 1..MaxFiles : files[f1].st = "alive" /\ files[f2].st = "dropped"

-----------------------------------------------------------------------------
(* Properties of the blobs of an EphemeralFile, checked under SpecBlob *)

\* the write calls that returned the offset of a blob
WrittenBlobs == {i \in 1..Len(ef_log) : ef_log[i].kind = "blob" /\ ef_log[i].outcome = "ok"}

\* bytes that a write call leaves in the file: the length field is one byte
\* below 128 bytes of payload and four bytes from there on
BytesOf(e) ==
    LET header == IF e.len < 128 THEN 1 ELSE 4
    IN IF e.outcome = "header_err" THEN 0
       ELSE IF e.kind = "raw" THEN e.len
       ELSE IF e.outcome = "payload_err" THEN header
       ELSE header + e.len

RECURSIVE BytesBefore(_)
BytesBefore(i) == IF i = 1 THEN 0 ELSE BytesBefore(i - 1) + BytesOf(ef_log[i - 1])

\* C8: every blob written reads back at the offset its write returned, after
\* any later writes, blobs longer than a page included; the offset is the
\* number of bytes written before it, headers included, so the offsets grow.
C8_BlobsReadBackAtOffsets ==
    /\ \A i \in WrittenBlobs :
          /\ read_blob(ef_file, ef_log[i].pos) = [ok |-> TRUE, buf |-> BlobData(ef_log[i].len, i)]
          /\ ef_log[i].pos = BytesBefore(i)
    /\ \A i, j \in WrittenBlobs : i < j => ef_log[i].pos < ef_log[j].pos
    /\ ef_read.at # 0
       => ef_read.res = [ok |-> TRUE, buf |-> BlobData(ef_log[ef_read.at].len, ef_read.at)]

\* a blob longer than a page was read after two later writes, the last of
\* them a blob whose length field lies across a page boundary
C8_Witness ==
    /\ Len(ef_log) = 3
    /\ ef_read.at = 1
    /\ ef_log[1].len > PAGE_SZ
    /\ 3 \in WrittenBlobs
    /\ ef_log[3].pos % PAGE_SZ > PAGE_SZ - 4

-----------------------------------------------------------------------------
(* Properties of the LSN range of a layer, checked under Spec *)

\* every indexed LSN is at or above lsn
AllAtOrAbove(idx, lsn) ==
    \A k \in DOMAIN idx : \A i \in 1..Len(idx[k]) : idx[k][i][1] >= lsn

\* C11: every indexed LSN lies in [start_lsn, end_lsn): at or above start_lsn
\* while the layer is open, and below E as well once freeze(E) has returned,
\* whatever put_batch calls came before the freeze.
C11_IndexedLsnsWithinRange ==
    /\ end_lsn = << >> => AllAtOrAbove(index, start_lsn)
    /\ (result.op = "freeze" /\ result.res = "ok")
       => AllAtOrAbove(index, start_lsn) /\ AllBelow(index, end_lsn[1])

-----------------------------------------------------------------------------
(* Properties of concurrent calls on a layer, checked under SpecConc *)

\* C12: a frozen layer is never mutated: once end_lsn is set no step adds a
\* byte to the file or an entry to the index, whatever put_batch and freeze
\* calls run concurrently.
C12_FrozenLayerNotMutated ==
    [][end_lsn # << >> => file' = file /\ index' = index]_vars

-----------------------------------------------------------------------------
(* Properties of the commit of L0 compaction, checked under SpecL0 *)

\* the layers of the LayerMap when the compaction started
L0Inputs == Range(l0_layers)

\* the LayerMap after the commit of the compaction that phase 1 returned
L0Replaced ==
    (L0Inputs \ {l0_layers[i] : i \in Range(l0_result.deltas_to_compact)})
    \cup Range(l0_result.new_layers)

\* C14: the LayerMap changes in one step only, the finish_compact_batch of a
\* compaction whose phase 1 returned its finished layers after the fsync of
\* the timeline directory; until then, and whenever the compaction failed or
\* was cancelled, the LayerMap holds exactly the layers it started with, and
\* afterwards exactly the inputs that were not compacted and the new layers.
C14_LayerMapChangesAtCommitOnly ==
    /\ [](\/ lm.layers = L0Inputs
          \/ /\ lm.result.res = "ok" /\ l0_result.res = "ok"
             /\ l0_result.new_layers # << >> => l0_result.synced
             /\ lm.layers = L0Replaced)
    /\ [](lm.result.res \in {"none", "err"} => lm.layers = L0Inputs /\ lm.remote = << >>)
    /\ [][lm.layers' # lm.layers
          => /\ l0.phase = "done" /\ l0_result.res = "ok" /\ lm.result.res = "none"
             /\ lm.layers = L0Inputs /\ lm'.layers = L0Replaced]_vars

\* a compaction of two layers was committed: the LayerMap holds the new
\* layers and none of the inputs
C14_Witness ==
    /\ lm.result.res = "ok"
    /\ Len(l0_result.deltas_to_compact) = 2
    /\ Len(l0_result.new_layers) = 2
    /\ lm.layers = Range(l0_result.new_layers)
    /\ lm.layers \cap L0Inputs = {}

-----------------------------------------------------------------------------
(* Properties of cancellation, checked under SpecL0 and SpecGcc *)

\* this step is compact_with_gc returning at one of its checks of the
\* cancellation token
GccReturnsAtCancelCheck ==
    /\ gcc.phase # "done" /\ gcc'.phase = "done"
    /\ tl.cancel
    /\ gcc'.result.res = "err" /\ gcc'.result.msg = "cancelled"

\* a compaction that returns at a check of the cancellation token commits
\* nothing: the LayerMap is as it was and no remote update is scheduled
C13_CancelCommitsNothing ==
    /\ [](lm.result.res = "err" /\ lm.result.err = "ShuttingDown"
          => lm.layers = L0Inputs /\ lm.remote = << >>)
    /\ [][GccReturnsAtCancelCheck => tl'.layers = tl.layers /\ tl'.remote = << >>]_vars

\* C13: when L0 compaction or GC-compaction observes the cancellation token
\* set, it returns the ShuttingDown error and commits nothing.
C13_CancelReturnsShuttingDown ==
    /\ C13_CancelCommitsNothing
    /\ [][GccReturnsAtCancelCheck => gcc'.result.err = "ShuttingDown"]_vars

-----------------------------------------------------------------------------
(* Properties of the flush of a key range, checked under SpecFlush *)

\* the keys of the index that lie in the key range lo..hi
KeysInRange(idx, key_range) ==
    {k \in DOMAIN idx : key_range[1] <= k /\ k < key_range[2]}

\* C15: write_to_disk with a key range returns None when no indexed key lies
\* in the range, and otherwise a delta layer whose entries are exactly the
\* indexed (key, lsn) pairs whose key lies in the range.
C15_KeyRangeFlushHoldsRangeOnly ==
    (result.op = "write_to_disk" /\ result.res = "ok" /\ result.key_range # << >>)
    => IF KeysInRange(index, result.key_range) = {} THEN result.delta = << >>
       ELSE /\ result.delta # << >>
            /\ LET d == result.delta[1]
               IN {<<d.entries[n].key, d.entries[n].lsn>> : n \in 1..Len(d.entries)}
                    = UNION {{<<k, index[k][i][1]>> : i \in 1..Len(index[k])} :
                               k \in KeysInRange(index, result.key_range)}

-----------------------------------------------------------------------------
(* Properties of a read that meets errors, checked under SpecReadErr *)

\* reading or deserializing the blob at pos fails
Unreadable(f, pos) == ~read_blob(f, pos).ok \/ ~Des(read_blob(f, pos).buf).ok

\* the position that the index holds for (k, lsn)
PosOf(k, lsn) == (CHOOSE e \in Range(index[k]) : e[1] = lsn)[2]

\* what the read would have left for every key had no read failed
CleanRead ==
    get_values_reconstruct_data(index, file, start_lsn, result.range,
                                result.end_lsn, result.cached)

\* C16: a read returns Ok whatever errors it meets. A key whose walk meets no
\* failing blob is left as by a read without errors; a key whose walk meets
\* one has the error recorded, and has been fed exactly the values that
\* precede the failing blob in its walk.
C16_KeyErrorEndsOnlyThatKey ==
    result.op = "get_values"
    => /\ result.res = "ok"
       /\ DOMAIN result.state = DOMAIN CleanRead
       /\ \A k \in DOMAIN result.state :
             LET st == result.state[k]
                 c == CleanRead[k]
                 hit == {n \in 1..Len(c.fed) :
                           Unreadable(result.view, PosOf(k, c.fed[n][1]))}
             IN IF hit = {} THEN st = c
                ELSE LET n == CHOOSE m \in hit : \A o \in hit : m <= o
                     IN /\ st.err # << >>
                        /\ st.fed = SubSeq(c.fed, 1, n - 1)

\* a read met a damaged value on one key, and fed the value of another key
C16_Witness ==
    /\ result.op = "get_values" /\ result.res = "ok"
    /\ \E k1 \in DOMAIN result.state, k2 \in DOMAIN result.state :
          /\ result.state[k1].err = <<"Deserialize">>
          /\ result.state[k2].err = << >>
          /\ result.state[k2].fed # << >>

-----------------------------------------------------------------------------
(* Properties of the errors of generate_key_retention, checked under SpecGc *)

\* the buckets of the history of gc_in, after the removal of duplicates
GcBuckets ==
    LET lsn_split_points == Append(gc_in.retain_lsn_below_horizon, gc_in.horizon)
        buckets == Bucketize(gc_in.full_history, lsn_split_points, 1, 0,
                             [n \in 1..(Len(gc_in.retain_lsn_below_horizon) + 2) |-> << >>])
    IN [n \in 1..Len(buckets) |-> DedupBucket(buckets[n])]

\* the ancestor image and the buckets up to bucket i, from the last
\* self-initializing entry on
ReplayUpTo(i) ==
    LET base == IF gc_in.base_img_from_ancestor = << >> THEN << >>
                ELSE <<[lsn |-> gc_in.base_img_from_ancestor[1].lsn,
                        val |-> Image(gc_in.base_img_from_ancestor[1].img)]>>
    IN TruncateReplay(base \o Concat([n \in 1..i |-> GcBuckets[n]]))

\* the history lacks its base: no ancestor image was supplied and no entry
\* up to the first split point at or above the oldest entry (no entry at
\* all, when the oldest entry is above the horizon) is self-initializing
LacksBase ==
    LET h == gc_in.full_history
        points == Range(gc_in.retain_lsn_below_horizon) \cup {gc_in.horizon}
        above == {p \in points : h[1].lsn <= p}
        first_bucket == IF above = {} THEN 1..Len(h)
                        ELSE LET b == CHOOSE p \in above : \A q \in above : p <= q
                             IN {n \in 1..Len(h) : h[n].lsn <= b}
    IN /\ gc_in.base_img_from_ancestor = << >>
       /\ h # << >>
       /\ \A n \in first_bucket : ~h[n].val.will_init

\* C17: generate_key_retention fails with the incomplete history error
\* exactly when the replay history after some bucket, cut at its last
\* self-initializing entry, is non-empty and starts with an entry that is not
\* self-initializing, which is exactly when the history lacks its base; on
\* that error it returns no retention and nothing is written for the key.
C17_IncompleteHistoryError ==
    gc_out.res # "none"
    => LET incomplete == gc_out.res = "err"
                         /\ gc_out.err = "invalid history, no base image"
       IN /\ incomplete
             <=> \E i \in 1..Len(GcBuckets) :
                    /\ ReplayUpTo(i) # << >>
                    /\ ~ReplayUpTo(i)[1].val.will_init
          /\ incomplete <=> LacksBase
          /\ incomplete => /\ DOMAIN gc_out = {"res", "err"}
                           /\ gc_written.res = "none"

\* the error at a bucket that follows an empty bucket: the oldest entry of
\* the key is a record above the lowest retain LSN that needs a base
C17_Witness ==
    /\ gc_out.res = "err" /\ gc_out.err = "invalid history, no base image"
    /\ gc_in.retain_lsn_below_horizon # << >>
    /\ gc_in.full_history[1].lsn > gc_in.retain_lsn_below_horizon[1]
    /\ \E n \in 1..Len(gc_in.full_history) : gc_in.full_history[n].val.will_init

-----------------------------------------------------------------------------
(* Properties of the duplicate layers of GC-compaction, checked under SpecGcc *)

\* compact_with_gc returns Ok after it has changed the LayerMap
GccCommits ==
    /\ gcc.phase = "loop" /\ gcc'.phase = "done"
    /\ gcc'.result.res = "ok" /\ ~tl.dry_run

\* C18: at the commit of GC-compaction, no layer that was written has the
\* key (key range, LSN range, kind) of a layer that the LayerMap held in the
\* generation of the timeline; every layer that was kept as a duplicate is
\* such a layer, is not in the set that the commit removes, and is in the
\* LayerMap after the commit.
C18_DuplicateLayerKept ==
    [][GccCommits
       => LET keep == gcc'.result.keep_layers
              new == gcc'.result.compact_to
              removed == Last(tl'.remote).remove
          IN /\ \A l \in tl.layers :
                   l.generation = tl.generation
                   => \A n \in new : LayerKey(n) # LayerKey(l)
             /\ \A k \in keep :
                   \E l \in tl.layers : LayerKey(l) = k /\ l.generation = tl.generation
             /\ \A l \in tl.layers :
                   LayerKey(l) \in keep
                   => l \notin removed /\ l \notin gcc'.layer_selection /\ l \in tl'.layers
             /\ tl'.layers = (tl.layers \ removed) \cup new]_vars

\* a commit that kept a delta layer as a duplicate and wrote another layer
C18_Witness ==
    /\ gcc.phase = "done" /\ gcc.result.res = "ok" /\ ~tl.dry_run
    /\ gcc.result.compact_to # {}
    /\ \E l \in tl.layers :
          /\ l.is_delta /\ LayerKey(l) \in gcc.result.keep_layers
          /\ l \notin gcc.result.compact_to

-----------------------------------------------------------------------------
(* Properties of the flush semaphore, checked under SpecFlushes *)

\* the calls that hold the loaded contents of their file
Loaded == {i \in 1..MaxFlushes : flushes[i].pc = "loaded"}

\* the calls that hold a permit
HoldPermit == {i \in 1..MaxFlushes : flushes[i].pc \in {"permit", "loaded"}}

\* C19: at most as many write_to_disk calls as the flush semaphore has
\* permits hold the loaded contents of their file, and every permit is
\* either available or held by a call that has not yet left write_to_disk:
\* a call that returned None, an error or a layer has given its permit back.
C19_LoadedCallsWithinPermits ==
    /\ Cardinality(Loaded) <= FlushPermits
    /\ semaphore + Cardinality(HoldPermit) = FlushPermits
    /\ semaphore >= 0

\* all permits are held by calls with loaded contents while another call
\* awaits a permit
C19_Witness ==
    /\ Cardinality(Loaded) = FlushPermits
    /\ \E i \in 1..MaxFlushes : flushes[i].pc = "acquire"

-----------------------------------------------------------------------------
(* Properties of the selection of the L0 layers, checked under SpecL0 *)

\* the selected L0 layers, in the order of their selection
Selected == [n \in 1..Len(l0.deltas_to_compact) |-> l0_layers[l0.deltas_to_compact[n]]]

\* the L0 layers that were not selected
Unselected ==
    {l0_layers[i] : i \in (1..Len(l0_layers)) \ Range(l0.deltas_to_compact)}

\* the selection starts at the oldest L0 layer and goes on without an LSN
\* gap, and the LSN range of the compaction is that of the selected run
SelectedIsRun ==
    /\ \A i \in 1..Len(l0_layers) :
          Selected[1].lsn_range[1] <= l0_layers[i].lsn_range[1]
    /\ \A n \in 1..(Len(Selected) - 1) :
          Selected[n + 1].lsn_range[1] = Selected[n].lsn_range[2]
    /\ l0.lsn_range = <<Selected[1].lsn_range[1],
                        Selected[Len(Selected)].lsn_range[2]>>

\* an L0 layer that was not selected continues the selected run
RunGoesOn ==
    \E l \in Unselected : l.lsn_range[1] = Selected[Len(Selected)].lsn_range[2]

\* the accumulated file size of the selected layers after the oldest reaches
\* the size limit
SelectedReachLimit ==
    SumSizes([n \in 1..(Len(Selected) - 1) |-> [size |-> Selected[n + 1].file_size]])
      >= delta_size_limit

\* the L0 layers have the LSN ranges [0,10), [10,20), [20,30), [40,50)
ExampleLayers ==
    {l0_layers[i].lsn_range : i \in 1..Len(l0_layers)}
      = {<<0, 10>>, <<10, 20>>, <<20, 30>>, <<40, 50>>}

\* C20, as amended: the selected L0 layers are the oldest one followed by the
\* run in which each next layer starts at the LSN where the layer before it
\* ends; the run is maximal unless the accumulated file size of its layers
\* after the oldest has reached the size limit; the LSN range of the
\* compaction goes from the start of the first to the end of the last
\* selected layer; of small layers [0,10), [10,20), [20,30), [40,50) exactly
\* the first three are selected.
C20_SelectsContiguousRunWithinLimit ==
    l0.deltas_to_compact # << >>
    => /\ SelectedIsRun
       /\ RunGoesOn => SelectedReachLimit
       /\ (ExampleLayers /\ ~SelectedReachLimit)
          => [n \in 1..Len(Selected) |-> Selected[n].lsn_range]
               = <<<<0, 10>>, <<10, 20>>, <<20, 30>>>>

\* C20: the selected L0 layers are the oldest one followed by the maximal run
\* in which each next layer starts at the LSN where the layer before it ends;
\* the LSN range of the compaction goes from the start of the first to the
\* end of the last selected layer; of [0,10), [10,20), [20,30), [40,50)
\* exactly the first three are selected.
C20_SelectsMaximalContiguousRun ==
    l0.deltas_to_compact # << >>
    => /\ SelectedIsRun
       /\ ~RunGoesOn
       /\ ExampleLayers
          => [n \in 1..Len(Selected) |-> Selected[n].lsn_range]
               = <<<<0, 10>>, <<10, 20>>, <<20, 30>>>>

\* the first three of the four layers of the example were selected
C20_Witness ==
    /\ ExampleLayers
    /\ Len(l0.deltas_to_compact) = 3
    /\ Unselected # {}
    /\ l0.fully_compacted

-----------------------------------------------------------------------------
(* Properties of the size limit of the selection, checked under SpecL0 *)

\* deltas_to_compact_bytes: the file sizes of the selected layers after the
\* oldest, which the selection does not count
SelectedBytes ==
    SumSizes([n \in 1..(Len(Selected) - 1) |-> [size |-> Selected[n + 1].file_size]])

\* C21: the accumulated file size of the selected L0 layers never exceeds
\* the size limit, and when layers that continue the run were left out
\* because of the limit, fully_compacted is false.
C21_SelectedSizeWithinLimit ==
    l0.deltas_to_compact # << >>
    => /\ SelectedBytes <= delta_size_limit
       /\ RunGoesOn => ~l0.fully_compacted

-----------------------------------------------------------------------------
(* Properties of the reported fully_compacted, checked under SpecL0 *)

\* C22: when a selection was made and compact_level0 has returned Ok, the
\* reported fully_compacted is true if and only if every L0 layer of the
\* layer map was among the compacted ones; it is not true when the selection
\* stopped at an LSN gap and left newer L0 layers out.
C22_FullyCompactedIffAllSelected ==
    (lm.result.res = "ok" /\ l0_result.deltas_to_compact # << >>)
    => (lm.result.fully_compacted
          <=> Range(l0_result.deltas_to_compact) = 1..Len(l0_layers))

-----------------------------------------------------------------------------
(* Properties of the holes of L0 -> L1 compaction, checked under SpecL0 *)

\* the L1 layers written so far: the finished ones and the open writer
OutputL1s ==
    Range(l0.new_layers)
      \cup {[key_range |-> <<w.key_start, w.key_start>>, lsn_range |-> w.lsn_range,
             entries |-> w.entries] : w \in Range(l0.writer)}

\* the layer holds a key below the hole and a key at or beyond its end
SpansHole(layer, hole) ==
    /\ \E n \in 1..Len(layer.entries) : layer.entries[n].key < hole.key_range[1]
    /\ \E n \in 1..Len(layer.entries) : layer.entries[n].key >= hole.key_range[2]

\* the values of keys 1 and 3 fit into one layer, and the gap between the
\* keys is a hole covered by 4 image layers
JumpAcrossHole ==
    /\ l0.phase = "write"
    /\ {l0.all_keys[n].key : n \in 1..Len(l0.all_keys)} = {1, 3}
    /\ Len(l0.all_keys) <= l0_conf.target_file_size
    /\ l0.holes = << [key_range |-> <<2, 3>>, coverage_size |-> 4] >>

\* C23: no output L1 holds both a key below a selected hole and a key at or
\* beyond the end of that hole, and a finished L1 ends at or before the hole
\* or starts at or beyond its end; a run that jumps from key 1 to key 3
\* across a hole covered by 4 image layers is written as two L1 layers, one
\* per side.
C23_OutputSplitAtHoles ==
    /\ \A layer \in OutputL1s : \A n \in 1..Len(l0.holes) :
          /\ ~SpansHole(layer, l0.holes[n])
          /\ \/ layer.key_range[2] <= l0.holes[n].key_range[1]
             \/ layer.key_range[1] >= l0.holes[n].key_range[2]
    /\ (JumpAcrossHole /\ l0.vals_pos > Len(l0.all_keys))
       => /\ Len(l0.new_layers) = 1 /\ Len(l0.writer) = 1
          /\ l0.new_layers[1].key_range = <<1, 2>>
          /\ \A n \in 1..Len(l0.new_layers[1].entries) :
                l0.new_layers[1].entries[n].key = 1
          /\ l0.writer[1].key_start = 3
          /\ \A n \in 1..Len(l0.writer[1].entries) : l0.writer[1].entries[n].key = 3

\* a run of keys 1 and 3 that fits into one layer was written as two layers,
\* split at the hole between the keys
C23_Witness ==
    /\ JumpAcrossHole /\ l0.vals_pos > Len(l0.all_keys)
    /\ Len(l0.new_layers) = 1 /\ Len(l0.writer) = 1

-----------------------------------------------------------------------------
(* Properties of the ranges of the output L1 layers, checked under SpecL0 *)

\* every entry of the layer lies in its declared key range and LSN range
EntriesInRanges(layer) ==
    \A n \in 1..Len(layer.entries) :
       /\ layer.key_range[1] <= layer.entries[n].key
       /\ layer.entries[n].key < layer.key_range[2]
       /\ layer.lsn_range[1] <= layer.entries[n].lsn
       /\ layer.entries[n].lsn < layer.lsn_range[2]

\* two half-open ranges have no point in common
DisjointRanges(a, b) == a[2] <= b[1] \/ b[2] <= a[1]

\* the declared key x LSN rectangles of the finished layers are pairwise
\* disjoint
RectanglesDisjoint(layers) ==
    \A i \in 1..Len(layers) : \A j \in (i + 1)..Len(layers) :
       \/ DisjointRanges(layers[i].key_range, layers[j].key_range)
       \/ DisjointRanges(layers[i].lsn_range, layers[j].lsn_range)

\* the keys of the compaction whose owned versions exceed target_file_size
BigKeys(all_keys) ==
    {k \in l0_conf.owned :
       Cardinality({n \in 1..Len(all_keys) : all_keys[n].key = k})
         > l0_conf.target_file_size}

\* the layers that hold the key hold nothing else, and their LSN ranges are
\* disjoint parts of the LSN range of the compaction
SplitByLsn(layers, key, lsn_range) ==
    LET holding == {i \in 1..Len(layers) :
                      \E n \in 1..Len(layers[i].entries) :
                         layers[i].entries[n].key = key}
    IN \A i \in holding :
          /\ \A n \in 1..Len(layers[i].entries) : layers[i].entries[n].key = key
          /\ lsn_range[1] <= layers[i].lsn_range[1]
          /\ layers[i].lsn_range[1] < layers[i].lsn_range[2]
          /\ layers[i].lsn_range[2] <= lsn_range[2]
          /\ \A j \in holding \ {i} :
                DisjointRanges(layers[i].lsn_range, layers[j].lsn_range)

\* the layers finished so far, and after the loop all output layers
OutputLayers ==
    IF l0.phase = "write"
    THEN IF l0.vals_pos > Len(l0.all_keys)
         THEN FinalLayers(l0.new_layers, l0.writer, l0.prev_key)
         ELSE l0.new_layers
    ELSE IF l0_result.res = "ok" THEN l0_result.new_layers ELSE << >>

\* C24: every entry of an output L1 lies in the declared key range and LSN
\* range of its layer; the declared key x LSN rectangles of the outputs of
\* one compaction are pairwise disjoint; and the layers that hold a key
\* whose versions exceed target_file_size hold only that key and have
\* disjoint half-open LSN ranges within the LSN range of the compaction.
C24_OutputRangesHoldEntriesAndAreDisjoint ==
    /\ \A layer \in Range(OutputLayers) : EntriesInRanges(layer)
    /\ RectanglesDisjoint(OutputLayers)
    /\ (l0.phase = "write" /\ l0.vals_pos > Len(l0.all_keys))
       => \A k \in BigKeys(l0.all_keys) : SplitByLsn(OutputLayers, k, l0.lsn_range)

\* the loop has ended, the versions of key 1 exceed target_file_size and are
\* held by more than one layer, and another key was written as well
C24_Witness ==
    /\ l0.phase = "write" /\ l0.vals_pos > Len(l0.all_keys)
    /\ 1 \in BigKeys(l0.all_keys)
    /\ Cardinality({i \in 1..Len(OutputLayers) : OutputLayers[i].entries[1].key = 1}) > 1
    /\ \E i \in 1..Len(OutputLayers) : OutputLayers[i].entries[1].key = 3

-----------------------------------------------------------------------------
(* Properties of the lock of the LayerManager during L0 -> L1 compaction,
   checked under SpecL0 *)

\* the guard that was held when layer I/O of the kind op was started
GuardsAt(op) == {e.guard : e \in {x \in rwlock.io : x.op = op}}

\* the exclusive guard was held for the swap of the layers and for nothing
\* else
ExclusiveForSwapOnly ==
    \A e \in rwlock.io : e.guard = "exclusive" <=> e.op = "swap"

\* C25, as amended: the shared lock of the LayerMap is held for planning,
\* which includes downloading the inputs and loading their keys, and is
\* released before values are read and outputs are written; the exclusive
\* lock is taken only for the final swap.
C25_SharedLockCoversPlanningWithInputLoading ==
    /\ GuardsAt("download") \subseteq {"shared"}
    /\ GuardsAt("load_keys") \subseteq {"shared"}
    /\ GuardsAt("read_value") \subseteq {"none"}
    /\ GuardsAt("write_output") \subseteq {"none"}
    /\ l0.phase = "write" => rwlock.guard = "none"
    /\ ExclusiveForSwapOnly

\* C25, as stated: the shared lock is released before any layer file I/O
\* starts, the download of the inputs and the loading of their keys
\* included; the exclusive lock is taken only for the final swap.
C25_SharedLockReleasedBeforeAnyLayerIo ==
    /\ \A op \in {"download", "load_keys", "read_value", "write_output"} :
          GuardsAt(op) \subseteq {"none"}
    /\ ExclusiveForSwapOnly

\* a compaction has downloaded its inputs and loaded their keys, has read
\* values and written outputs, and has swapped the layers
C25_Witness ==
    /\ lm.result.res = "ok"
    /\ {e.op : e \in rwlock.io}
         = {"download", "load_keys", "read_value", "write_output", "swap"}

-----------------------------------------------------------------------------
(* Properties of the steps of generate_key_retention, checked under SpecGc *)

\* lsn_split_points: the retain LSNs followed by the horizon
GcSplitPoints == Append(gc_in.retain_lsn_below_horizon, gc_in.horizon)

\* split_history after step 1 of the call on gc_in
GcSplitHistory ==
    Bucketize(gc_in.full_history, GcSplitPoints, 1, 0,
              [n \in 1..(Len(GcSplitPoints) + 1) |-> << >>])

\* the smallest index of a split point that the LSN is not above, and the
\* index of the bucket above the horizon when there is none
BucketOfLsn(lsn) ==
    LET at == {i \in 1..Len(GcSplitPoints) : lsn <= GcSplitPoints[i]}
    IN IF at = {} THEN Len(GcSplitPoints) + 1
       ELSE CHOOSE i \in at : \A j \in at : i <= j

\* the entries of the history whose bucket is i, in the order of the history
EntriesOfBucket(i) ==
    LET pos == SortedSeq({n \in 1..Len(gc_in.full_history) :
                            BucketOfLsn(gc_in.full_history[n].lsn) = i})
    IN [n \in 1..Len(pos) |-> gc_in.full_history[pos[n]]]

\* C26: step 1 puts each history entry with LSN l into the bucket of the
\* smallest index i with l <= split[i], split being the ascending retain
\* LSNs followed by the horizon, and into the last bucket when l is above
\* the horizon; an entry at a retain LSN or at the horizon is in the bucket
\* of that split point.
C26_EntriesBucketedByFirstSplitPointNotBelow ==
    gc_out.res # "none"
    => LET split_history == GcSplitHistory
       IN /\ Len(split_history) = Len(GcSplitPoints) + 1
          /\ \A i \in 1..Len(split_history) : split_history[i] = EntriesOfBucket(i)
          /\ \A i \in 1..Len(GcSplitPoints) :
                \A n \in 1..Len(gc_in.full_history) :
                   gc_in.full_history[n].lsn = GcSplitPoints[i]
                   => \E m \in 1..Len(split_history[i]) :
                         split_history[i][m] = gc_in.full_history[n]

\* the call has run on a history with an entry at the retain LSN 1, an
\* entry at the horizon 2 and an entry above the horizon
C26_Witness ==
    /\ gc_out.res # "none"
    /\ GcSplitPoints = <<1, 2>>
    /\ {gc_in.full_history[n].lsn : n \in 1..Len(gc_in.full_history)} = {1, 2, 3}

\* for each bucket of the call on gc_in, whether an image was generated for it
GcImages ==
    RetentionSteps(gc_in.full_history, gc_in.horizon, gc_in.retain_lsn_below_horizon,
                   gc_in.delta_threshold_cnt, gc_in.base_img_from_ancestor).images

RECURSIVE SumLen(_)
SumLen(seqs) == IF seqs = << >> THEN 0 ELSE Len(Head(seqs)) + SumLen(Tail(seqs))

\* the number of entries of the buckets after the last bucket before k for
\* which an image was generated, up to bucket k
RecordsSinceLastImage(images, k) ==
    LET before == {j \in 1..(k - 1) : images[j]}
        last == IF before = {} THEN 0 ELSE CHOOSE j \in before : \A m \in before : m <= j
        buckets == GcBuckets
    IN SumLen([n \in 1..(k - last) |-> buckets[last + n]])

\* bucket k of the result is one image at the split LSN of the bucket
IsImageAtSplit(k) ==
    /\ k <= Len(GcSplitPoints)
    /\ Len(gc_out.below_horizon[k].logs) = 1
    /\ gc_out.below_horizon[k].logs[1].lsn = GcSplitPoints[k]
    /\ gc_out.below_horizon[k].logs[1].val.tag = "Image"

\* C27, as amended: an image is generated for a bucket, at the split LSN of
\* the bucket, exactly when entries have accumulated since the last generated
\* image and either the bucket is the first and there is no ancestor image,
\* or the bucket is not the last and the accumulated entries have reached
\* delta_threshold_cnt; no image is generated for the bucket above the
\* horizon.
C27_ImageWhenRecordsAccumulated ==
    gc_out.res = "ok"
    => LET images == GcImages
       IN /\ \A k \in 1..Len(images) :
                LET records == RecordsSinceLastImage(images, k)
                IN /\ images[k]
                      <=> /\ records > 0
                          /\ \/ k = 1 /\ gc_in.base_img_from_ancestor = << >>
                             \/ k # Len(images) /\ records >= gc_in.delta_threshold_cnt
                   /\ images[k] => IsImageAtSplit(k)
          /\ ~images[Len(images)]

\* C27, as stated: an image is generated for a bucket exactly when the
\* bucket is the first and there is no ancestor image, or the bucket is
\* neither the first nor the last and the accumulated entries have reached
\* delta_threshold_cnt; none for the first bucket when there is an ancestor
\* image, none for the bucket above the horizon.
C27_ImageForFirstOrAtThreshold ==
    gc_out.res = "ok"
    => LET images == GcImages
       IN /\ \A k \in 1..Len(images) :
                /\ images[k]
                   <=> \/ k = 1 /\ gc_in.base_img_from_ancestor = << >>
                       \/ /\ k \notin {1, Len(images)}
                          /\ RecordsSinceLastImage(images, k)
                               >= gc_in.delta_threshold_cnt
                /\ images[k] => IsImageAtSplit(k)
          /\ gc_in.base_img_from_ancestor # << >> => ~images[1]
          /\ ~images[Len(images)]

\* with an ancestor image, an image was generated for the first of three
\* buckets, whose entries reach delta_threshold_cnt, and for no other
C27_Witness ==
    /\ gc_out.res = "ok"
    /\ gc_in.base_img_from_ancestor # << >>
    /\ GcImages = <<TRUE, FALSE, FALSE>>

\* the entries of a bucket without the records that share their LSN with an
\* image of the bucket, in the order of the bucket
WithoutShadowedRecords(bucket) ==
    LET pos == SortedSeq({n \in 1..Len(bucket) :
                            ~ /\ bucket[n].val.tag = "WalRecord"
                              /\ \E m \in 1..Len(bucket) :
                                    /\ bucket[m].lsn = bucket[n].lsn
                                    /\ bucket[m].val.tag = "Image"})
    IN [n \in 1..Len(pos) |-> bucket[pos[n]]]

\* the logs of bucket k of the result: the last bucket is above the horizon
GcLogs(k) ==
    IF k <= Len(GcSplitPoints) THEN gc_out.below_horizon[k].logs
    ELSE gc_out.above_horizon

\* C28, as amended: each bucket of the result below the horizon is either
\* exactly one image at the split LSN of the bucket or the deduplicated
\* entries of the bucket, LSNs and values unchanged and in the same order;
\* the output above the horizon is the deduplicated input entries above the
\* horizon, unchanged and in the same order.
C28_OutputIsImageOrDeduplicatedEntries ==
    gc_out.res = "ok"
    => /\ Len(gc_out.below_horizon) = Len(GcSplitPoints)
       /\ \A k \in 1..Len(GcSplitPoints) :
             /\ gc_out.below_horizon[k].cutoff_lsn = GcSplitPoints[k]
             /\ \/ IsImageAtSplit(k)
                \/ GcLogs(k) = WithoutShadowedRecords(EntriesOfBucket(k))
       /\ gc_out.above_horizon
            = WithoutShadowedRecords(EntriesOfBucket(Len(GcSplitPoints) + 1))

\* C28, as stated: each bucket of the result below the horizon is either
\* exactly one image at the split LSN of the bucket or the entries of the
\* bucket, unchanged; the output above the horizon is the input entries
\* above the horizon, unchanged and in the same order.
C28_OutputIsImageOrBucketEntries ==
    gc_out.res = "ok"
    => /\ Len(gc_out.below_horizon) = Len(GcSplitPoints)
       /\ \A k \in 1..Len(GcSplitPoints) :
             /\ gc_out.below_horizon[k].cutoff_lsn = GcSplitPoints[k]
             /\ \/ IsImageAtSplit(k)
                \/ GcLogs(k) = EntriesOfBucket(k)
       /\ gc_out.above_horizon = EntriesOfBucket(Len(GcSplitPoints) + 1)

\* the result holds a generated image, a kept bucket with a record below the
\* horizon, and an image and a record at one LSN above the horizon
C28_Witness ==
    /\ gc_out.res = "ok"
    /\ GcImages = <<TRUE, FALSE, FALSE>>
    /\ Len(GcLogs(2)) = 1 /\ GcLogs(2)[1].val.tag = "WalRecord"
    /\ Len(EntriesOfBucket(3)) = 2

\* the history holds an image at the LSN
ImageAt(lsn) ==
    \E n \in 1..Len(gc_in.full_history) :
       /\ gc_in.full_history[n].lsn = lsn
       /\ gc_in.full_history[n].val.tag = "Image"

\* C29: after step 2 every bucket holds at most one entry per LSN, holds an
\* entry for every LSN its entries had before, and the entry at an LSN where
\* the history holds an image is that image: of an Image and a WalRecord at
\* one LSN the Image is kept and the WalRecord is dropped.
C29_DedupKeepsImage ==
    gc_out.res # "none"
    => LET dedup == GcBuckets
           split_history == GcSplitHistory
       IN \A k \in 1..Len(dedup) :
             /\ \A n, m \in 1..Len(dedup[k]) :
                   dedup[k][n].lsn = dedup[k][m].lsn => n = m
             /\ {dedup[k][n].lsn : n \in 1..Len(dedup[k])}
                  = {split_history[k][n].lsn : n \in 1..Len(split_history[k])}
             /\ \A n \in 1..Len(dedup[k]) :
                   /\ \E m \in 1..Len(split_history[k]) :
                         split_history[k][m] = dedup[k][n]
                   /\ ImageAt(dedup[k][n].lsn) => dedup[k][n].val.tag = "Image"

\* the call has run on a history with an image and a record at LSN 2, in a
\* bucket that holds another entry as well
C29_Witness ==
    /\ gc_out.res # "none"
    /\ LET dedup == GcBuckets
           split_history == GcSplitHistory
       IN \E k \in 1..Len(dedup) :
             /\ Len(split_history[k]) = 3
             /\ Len(dedup[k]) = 2
             /\ \E n \in 1..2 : dedup[k][n].lsn = 2 /\ dedup[k][n].val.tag = "Image"

-----------------------------------------------------------------------------
(* Properties of the delta layers of GC-compaction, checked under SpecGcc *)

\* the delta layers flush_deltas has created so far, and after a successful
\* return the delta layers that were committed
CreatedDeltas ==
    IF gcc.phase = "done"
    THEN IF gcc.result.res = "ok"
         THEN {l \in gcc.result.compact_to : l.is_delta} ELSE {}
    ELSE {gcc.delta_layers[n].layer :
            n \in {m \in 1..Len(gcc.delta_layers) :
                     gcc.delta_layers[m].kind = "CreateResidentLayer"}}

\* the layer holds a key below the split point and a key at or above it
SpansSplitPoint(layer, split_point) ==
    /\ \E n \in 1..Len(layer.entries) : layer.entries[n].key < split_point
    /\ \E n \in 1..Len(layer.entries) : layer.entries[n].key >= split_point

\* C30: no delta layer that GC-compaction produces holds keys on both sides
\* of the start key or the end key of a selected input delta layer.
C30_DeltasSplitAtInputBoundaries ==
    \A layer \in CreatedDeltas :
       \A l \in {x \in gcc.layer_selection : x.is_delta} :
          /\ ~SpansSplitPoint(layer, l.key_range[1])
          /\ ~SpansSplitPoint(layer, l.key_range[2])

-----------------------------------------------------------------------------
(***************************************************************************)
(* compact_shard_ancestors (timeline/compaction.rs): after a shard split,  *)
(* drop the ancestor layers without keys of this shard and rewrite the     *)
(* image layers that hold keys of other shards.  A layer is a record of    *)
(* what the function looks at: the shard count and generation of its       *)
(* metadata, the page counts of its key range (<<local, raw>>), the end of *)
(* its LSN range and whether it is a delta layer.                          *)
(***************************************************************************)

\* the most historic layers the LayerMap holds
MaxAncestors == 2

\* u32::MAX, the page count that ShardedRange reports for a range too large
\* to count, brought into the integer range of the model checker
PAGE_COUNT_MAX == 2147483647

\* the page counts <<layer_local_page_count, layer_raw_page_count>> of a layer
PageCounts == {<<0, 4>>, <<2, 4>>, <<3, 4>>, <<4, 4>>, <<PAGE_COUNT_MAX, PAGE_COUNT_MAX>>}

\* the layers that the LayerMap can hold: layers written by the ancestor
\* shard (shard count 1) and layers written by this shard (shard count 2)
HistoricLayers ==
    [shard_count : {1}, pages : PageCounts, lsn_end : {1, 2},
     is_delta : BOOLEAN, generation : {1, 2}]
    \cup [shard_count : {2}, pages : {<<2, 4>>, <<4, 4>>}, lsn_end : {1, 2},
          is_delta : BOOLEAN, generation : {1, 2}]

\* the values of rewrite_max that compaction passes
RewriteMaxes == {0, 1, 2}

\* the orders in which iter_historic_layers can list the layers of the map
IterHistoricLayers(layers) ==
    {o \in [1..Cardinality(layers) -> layers] :
        \A i, j \in 1..Cardinality(layers) : i # j => o[i] # o[j]}

\* "this layer does not belong to a historic ancestor"
SameShardCount(layer, shard_count) == layer.shard_count = shard_count

\* "layer is entirely shard local, no need to filter it"
EntirelyLocal(layer_local_page_count, layer_raw_page_count) ==
    /\ layer_local_page_count # PAGE_COUNT_MAX
    /\ layer_local_page_count = layer_raw_page_count

\* "layer is already mostly local, not rewriting": the condition of the
\* branch that writes this debug message
MostlyLocal(layer_local_page_count, layer_raw_page_count) ==
    /\ layer_local_page_count # PAGE_COUNT_MAX
    /\ layer_local_page_count > layer_raw_page_count \div 2

InGcWindow_Never(lsn_end, latest_gc_cutoff) == FALSE

\* "skipping rewrite of layer still in GC window"
InGcWindow(lsn_end, latest_gc_cutoff) == lsn_end >= latest_gc_cutoff

RewriteLimitReached_Above(len, rewrite_max) == len > rewrite_max

\* "will rewrite layer on a future compaction"
RewriteLimitReached(len, rewrite_max) == len >= rewrite_max

\* one iteration of the loop over the historic layers: what it does with
\* layer_desc when len layers are in layers_to_rewrite.  The branch for a
\* mostly local layer holds a debug! message and nothing else, so the
\* iteration goes on to the next test whatever MostlyLocal says.
VisitLayer(layer, s, len) ==
    IF SameShardCount(layer, s.shard_count) THEN "continue"
    ELSE IF layer.pages[1] = 0 THEN "drop"
    ELSE IF EntirelyLocal(layer.pages[1], layer.pages[2]) THEN "continue"
    ELSE IF InGcWindow(layer.lsn_end, s.latest_gc_cutoff) THEN "continue"
    ELSE IF layer.is_delta THEN "continue"
    ELSE IF layer.generation = s.generation THEN "continue"
    ELSE IF RewriteLimitReached(len, s.rewrite_max) THEN "continue"
    ELSE "rewrite"

\* the loop over the historic layers, from layer i of the listing on
RECURSIVE VisitLayers(_, _, _, _, _)
VisitLayers(order, i, s, drop_layers, layers_to_rewrite) ==
    IF i > Len(order) THEN [drop_layers |-> drop_layers, layers_to_rewrite |-> layers_to_rewrite]
    ELSE LET todo == VisitLayer(order[i], s, Len(layers_to_rewrite))
         IN  VisitLayers(order, i + 1, s,
                         IF todo = "drop" THEN drop_layers \cup {order[i]} ELSE drop_layers,
                         IF todo = "rewrite" THEN Append(layers_to_rewrite, order[i])
                                             ELSE layers_to_rewrite)

\* the first part of compact_shard_ancestors, under the read lock of the
\* layer map: choose the layers to drop and the layers to rewrite
SelectLayers ==
    /\ sa.phase = "start"
    /\ \E order \in IterHistoricLayers(sa.layers) :
        LET sel == VisitLayers(order, 1, sa, {}, << >>)
        IN  sa' = [sa EXCEPT !.phase = "rewrite",
                             !.drop_layers = sel.drop_layers,
                             !.layers_to_rewrite = sel.layers_to_rewrite]
    /\ UNCHANGED non_sa_vars

\* the image layer that ImageLayerWriter::finish makes of an ancestor layer:
\* the same key range and LSN, written by this shard in this generation
RewrittenLayer(layer, s) ==
    [layer EXCEPT !.shard_count = s.shard_count, !.generation = s.generation]

\* one iteration of the loop over layers_to_rewrite: the writer, the
\* download or the filter fails and the function returns the error, or the
\* filter writes keys_written keys
RewriteLayer ==
    /\ sa.phase = "rewrite"
    /\ sa.layers_to_rewrite # << >>
    /\ LET layer == Head(sa.layers_to_rewrite)
       IN  \E keys_written \in {0, 1}, io \in {"ok", "err"} :
            sa' = IF io = "err"
                  THEN [sa EXCEPT !.phase = "done", !.result = "Err(Other)"]
                  ELSE IF keys_written > 0
                  THEN [sa EXCEPT !.layers_to_rewrite = Tail(@),
                                  !.replace_image_layers =
                                      Append(@, <<layer, RewrittenLayer(layer, sa)>>)]
                  ELSE [sa EXCEPT !.layers_to_rewrite = Tail(@),
                                  !.drop_layers = @ \cup {layer}]
    /\ UNCHANGED non_sa_vars

\* the LayerMap after rewrite_layers(replace_image_layers, drop_layers)
rewrite_layers(layers, replace_image_layers, drop_layers) ==
    ((layers \ {replace_image_layers[i][1] : i \in 1..Len(replace_image_layers)})
        \ drop_layers)
    \cup {replace_image_layers[i][2] : i \in 1..Len(replace_image_layers)}

\* self.rewrite_layers(..).await?: the LayerMap is updated and the change is
\* queued for remote storage, or the call fails and the function returns
RewriteLayers ==
    /\ sa.phase = "rewrite"
    /\ sa.layers_to_rewrite = << >>
    /\ \E ok \in BOOLEAN :
        sa' = IF ok
              THEN [sa EXCEPT !.phase = "wait", !.rewritten = TRUE,
                              !.layers = rewrite_layers(@, sa.replace_image_layers,
                                                        sa.drop_layers)]
              ELSE [sa EXCEPT !.phase = "done", !.result = "Err(Other)"]
    /\ UNCHANGED non_sa_vars

\* self.remote_client.wait_completion().await and the return that follows
WaitCompletion ==
    /\ sa.phase = "wait"
    /\ \E r \in {"Ok", "NotInitialized", "UploadQueueShutDownOrStopped"} :
        sa' = [sa EXCEPT !.phase = "done",
                         !.uploaded = (r = "Ok"),
                         !.result = CASE r = "Ok" -> "Ok"
                                      [] r = "NotInitialized" -> "Err(Other)"
                                      [] OTHER -> "Err(ShuttingDown)"]
    /\ UNCHANGED non_sa_vars

\* a timeline with some historic layers, and a call of
\* compact_shard_ancestors(rewrite_max) on it
InitSa ==
    /\ InitLayer /\ L0Idle /\ GcIdle /\ ResIdle /\ GateIdle /\ BlobIdle /\ JwkIdle /\ NamesIdle /\ FlushIdle
    /\ GccIdle /\ LmIdle /\ ConcIdle
    /\ \E n \in 0..MaxAncestors, rewrite_max \in RewriteMaxes :
       \E listed \in [1..n -> HistoricLayers] :
          sa = [layers |-> {listed[i] : i \in 1..n}, shard_count |-> 2, generation |-> 2,
                 latest_gc_cutoff |-> 2, rewrite_max |-> rewrite_max, phase |-> "start",
                 drop_layers |-> {}, layers_to_rewrite |-> << >>,
                 replace_image_layers |-> << >>, rewritten |-> FALSE,
                 uploaded |-> FALSE, result |-> "none"]

NextSa == SelectLayers \/ RewriteLayer \/ RewriteLayers \/ WaitCompletion

SpecSa == InitSa /\ [][NextSa]_vars

-----------------------------------------------------------------------------
(***************************************************************************)
(* Properties of compact_shard_ancestors                                   *)
(***************************************************************************)

\* the layers that the call has chosen to rewrite: those waiting in
\* layers_to_rewrite and those already rewritten
ChosenForRewrite ==
    {sa.layers_to_rewrite[i] : i \in 1..Len(sa.layers_to_rewrite)}
        \cup {sa.replace_image_layers[i][1] : i \in 1..Len(sa.replace_image_layers)}

\* C31: an ancestor layer of which more than half the pages are locally owned
\* is never among the layers to rewrite
C31_MostlyLocalLayerNotRewritten ==
    \A layer \in ChosenForRewrite : ~MostlyLocal(layer.pages[1], layer.pages[2])

\* C32: a layer chosen for rewriting has another shard count than this
\* shard, at least one locally owned page, is an image layer, ends below the
\* latest GC cutoff and has another generation than the current one; an
\* ancestor layer without locally owned pages is put into drop_layers, never
\* into layers_to_rewrite, and is gone from the LayerMap once rewrite_layers
\* has been applied
C32_RewrittenOnlyIfEligibleAndEmptyDropped ==
    /\ \A layer \in ChosenForRewrite :
        /\ layer.shard_count # sa.shard_count
        /\ layer.pages[1] >= 1
        /\ ~layer.is_delta
        /\ layer.lsn_end < sa.latest_gc_cutoff
        /\ layer.generation # sa.generation
    /\ sa.phase = "rewrite" =>
        \A layer \in sa.layers :
            (layer.shard_count # sa.shard_count /\ layer.pages[1] = 0)
                => (layer \in sa.drop_layers /\ layer \notin ChosenForRewrite)
    /\ sa.rewritten =>
        \A layer \in sa.layers :
            ~(layer.shard_count # sa.shard_count /\ layer.pages[1] = 0)

\* a call that succeeded after it rewrote a layer and dropped an ancestor
\* layer without local pages, next to a layer of this shard that it left alone
C32_Witness ==
    /\ sa.result = "Ok"
    /\ Len(sa.replace_image_layers) = 1
    /\ sa.replace_image_layers[1][2] \in sa.layers
    /\ sa.replace_image_layers[1][1] \notin sa.layers
    /\ \E layer \in sa.drop_layers : layer.pages[1] = 0 /\ layer \notin sa.layers

\* C33: one pass chooses at most rewrite_max layers for rewriting, and it
\* returns Ok only after rewrite_layers has been applied and wait_completion
\* has succeeded
C33_AtMostRewriteMaxAndOkAfterUpload ==
    /\ Cardinality(ChosenForRewrite) <= sa.rewrite_max
    /\ Len(sa.layers_to_rewrite) + Len(sa.replace_image_layers) <= sa.rewrite_max
    /\ sa.result = "Ok" => (sa.rewritten /\ sa.uploaded)

\* a successful pass with rewrite_max = 1 that rewrote one of two eligible
\* ancestor layers and left the other one in the LayerMap
C33_Witness ==
    /\ sa.result = "Ok"
    /\ sa.rewrite_max = 1
    /\ Len(sa.replace_image_layers) = 1
    /\ \E layer \in sa.layers :
        /\ VisitLayer(layer, sa, 0) = "rewrite"
        /\ layer # sa.replace_image_layers[1][1]

-----------------------------------------------------------------------------
(***************************************************************************)
(* Properties of publish_size and maybe_publish_size, checked under        *)
(* SpecRes                                                                 *)
(***************************************************************************)

\* a layer that is alone or beside another layer, which has published 0 or
\* 135 bytes, with max_dirty_bytes unlimited or configured to 139 bytes
InitPublish ==
    /\ start_lsn = StartLsn
    /\ end_lsn = << >>
    /\ file = << >>
    /\ index = << >>
    /\ ru_dirty_bytes = 0
    /\ \E others \in {<<0, 0>>, <<1, 0>>, <<1, 135>>} :
          /\ g_dirty_layers = 1 + others[1]
          /\ g_dirty_bytes = others[2]
    /\ g_max_dirty_bytes \in {0, 139}
    /\ result = [op |-> "create", res |-> "ok"]
    /\ batched = << >>
    /\ nvalues = 0
    /\ L0Idle /\ GcIdle /\ ResIdle /\ GateIdle /\ BlobIdle /\ JwkIdle /\ NamesIdle /\ SaIdle /\ FlushIdle
    /\ GccIdle /\ LmIdle /\ ConcIdle

NextPublish == PutBatch \/ Tick

SpecPublish == InitPublish /\ [][NextPublish]_vars

\* C34: publish_size returns Some(D / n) exactly when max_dirty_bytes > 0 and
\* D > max_dirty_bytes, where D is the global dirty_bytes that the call leaves
\* and n the dirty_layers count, and None otherwise; with max_dirty_bytes = 0
\* it always returns None.  tick hands the return value to its caller.
C34_PublishSizeReturnsAverageAboveCeiling ==
    result.op = "tick" =>
       /\ ru_dirty_bytes = Len(file)
       /\ result.ret = IF g_max_dirty_bytes > 0 /\ g_dirty_bytes > g_max_dirty_bytes
                       THEN <<g_dirty_bytes \div g_dirty_layers>>
                       ELSE << >>
       /\ g_max_dirty_bytes = 0 => result.ret = << >>

\* with a ceiling of 139 bytes, a tick of a layer of 8 bytes beside a layer
\* of 135 bytes returned the average of 143 bytes over two layers
C34_Witness ==
    /\ result.op = "tick"
    /\ g_max_dirty_bytes = 139
    /\ g_dirty_layers = 2
    /\ Len(file) = 8
    /\ result.ret = <<71>>

\* the distance of the new file length of layer h from its published size
SizeDrift(h) ==
    IF units'[h].len > units[h].dirty_bytes
    THEN units'[h].len - units[h].dirty_bytes
    ELSE units[h].dirty_bytes - units'[h].len

\* put_batch of layer h has called publish_size with the new file length
PublishesNewSize(h) == units'[h].pc = "publish" /\ units'[h].size = units'[h].len

\* C35 as amended: a put_batch publishes the new file size exactly when it
\* differs from the last published size by more than 10 MiB
C35_PublishedWhenDriftAboveLimit ==
    [][\A h \in 1..MaxLayers :
          units'[h].len # units[h].len
             => (PublishesNewSize(h) <=> SizeDrift(h) > 10 * 1024 * 1024)]_vars

\* C35: a put_batch publishes the new file size exactly when it differs from
\* the last published size by at least 10 MiB
C35_PublishedWhenDriftAtLeastLimit ==
    [][\A h \in 1..MaxLayers :
          units'[h].len # units[h].len
             => (PublishesNewSize(h) <=> SizeDrift(h) >= 10 * 1024 * 1024)]_vars

\* a layer that grew from its published 2 MiB to 12 MiB and has published
\* nothing after that put_batch, next to a layer whose put_batch is publishing
\* 12 MiB
C35_Witness ==
    \E h1, h2 \in 1..MaxLayers :
       /\ units[h1].pc = "idle" /\ units[h1].len = 12 * 1024 * 1024
       /\ units[h1].dirty_bytes = 2 * 1024 * 1024
       /\ units[h2].pc = "publish" /\ units[h2].size = 12 * 1024 * 1024
       /\ ~units[h2].dropping

\* C38: no publish_size call divides by zero: none panics in the division of
\* the global dirty bytes by dirty_layers
C38_PublishSizeNeverDividesByZero ==
    \A h \in 1..MaxLayers : units[h].pc # "panic"

-----------------------------------------------------------------------------
(***************************************************************************)
(* put_batch of a (key, lsn) that the index holds already                  *)
(***************************************************************************)

\* the values handed to put_batch when a (key, lsn) is written again
MaxPuts == 3

PutBatchAgain == PutBatchUpTo(MaxPuts)

NextOverwrite == PutBatchAgain

SpecOverwrite == Init /\ [][NextOverwrite]_vars

\* a step of a put_batch call that wrote its buffer to the file
PutBatchWrote == result'.op = "put_batch" /\ nvalues' # nvalues

\* the pairs that were in the index before this step and that the step
\* indexed again
WrittenAgain == {p \in DOMAIN batched : batched'[p] # batched[p]}

\* after a put_batch that returned Ok: every key has one entry per LSN; a
\* pair that was written again keeps its place in the VecMap of its key, the
\* entries before it are unchanged, its offset is that of the blob written in
\* this step, and reading there gives the value of this step
OverwriteInPlace ==
    /\ \A k \in DOMAIN index' : \A i, j \in 1..Len(index'[k]) :
          i < j => index'[k][i][1] < index'[k][j][1]
    /\ \A p \in WrittenAgain :
          LET old == index[p[1]]
              new == index'[p[1]]
              i == CHOOSE i \in 1..Len(old) : old[i][1] = p[2]
              blob == read_blob(file', new[i][2])
          IN /\ Len(new) >= Len(old)
             /\ \A j \in 1..Len(old) : j # i => new[j] = old[j]
             /\ new[i] = <<p[2], batched'[p].base + batched'[p].rel>>
             /\ batched'[p].base = Len(file)
             /\ blob.ok
             /\ Des(blob.buf) = [ok |-> TRUE, val |-> batched'[p].val]

\* the result of a put_batch that panicked in the unwrap of
\* append_or_update_last
PanickedAtPair(res) == res.op = "put_batch" /\ res.res = "panic" /\ "lsn" \in DOMAIN res

-----------------------------------------------------------------------------
(***************************************************************************)
(* The file names of EphemeralFile::create and is_ephemeral_file           *)
(* (ephemeral_file.rs).  A u64 is four 16-bit limbs, most significant      *)
(* first, and a u32 two of them; a string is a sequence of one-character   *)
(* strings.                                                                *)
(***************************************************************************)

\* the create calls of one run of the model
MaxCreates == 20

\* 2^16, the base of the limbs
LIMB == 65536

DigitChars == <<"0", "1", "2", "3", "4", "5", "6", "7", "8", "9">>

EphemeralPrefix == <<"e", "p", "h", "e", "m", "e", "r", "a", "l", "-">>

\* AtomicU64::fetch_add(1): the value after it, wrapping at 2^64
RECURSIVE fetch_add_1(_)
fetch_add_1(v) ==
    IF v = << >> THEN << >>
    ELSE IF Last(v) + 1 < LIMB THEN Append(Front(v), Last(v) + 1)
    ELSE Append(fetch_add_1(Front(v)), 0)

\* the division of a limb sequence by ten: quotient and remainder
RECURSIVE DivMod10(_, _, _)
DivMod10(v, i, st) ==
    IF i > Len(v) THEN st
    ELSE LET cur == st.rem * LIMB + v[i]
         IN  DivMod10(v, i + 1, [quot |-> Append(st.quot, cur \div 10), rem |-> cur % 10])

\* format!("{}") of an unsigned integer: its decimal digits
RECURSIVE format_u64(_)
format_u64(v) ==
    LET d == DivMod10(v, 1, [quot |-> << >>, rem |-> 0])
    IN  IF \A i \in 1..Len(v) : d.quot[i] = 0
        THEN <<DigitChars[d.rem + 1]>>
        ELSE Append(format_u64(d.quot), DigitChars[d.rem + 1])

\* the file name that create gives to the file with this disambiguator
Filename(filename_disambiguator) == EphemeralPrefix \o format_u64(filename_disambiguator)

\* str::strip_prefix: << >> is None, <<rest>> is Some(rest)
strip_prefix(s, prefix) ==
    IF Len(s) >= Len(prefix) /\ SubSeq(s, 1, Len(prefix)) = prefix
    THEN <<SubSeq(s, Len(prefix) + 1, Len(s))>>
    ELSE << >>

\* the digit that a character stands for, 10 for any other character
DigitOf(c) ==
    IF \E d \in 1..10 : DigitChars[d] = c
    THEN (CHOOSE d \in 1..10 : DigitChars[d] = c) - 1
    ELSE 10

\* the digits of a u32 from digit i of s on, acc being the value so far in
\* two limbs: FALSE when a character is no digit or the value leaves the u32
RECURSIVE ParseDigits(_, _, _)
ParseDigits(s, i, acc) ==
    IF i > Len(s) THEN TRUE
    ELSE IF DigitOf(s[i]) = 10 THEN FALSE
    ELSE LET lo == acc[2] * 10 + DigitOf(s[i])
             hi == acc[1] * 10 + lo \div LIMB
         IN  IF hi >= LIMB THEN FALSE
             ELSE ParseDigits(s, i + 1, <<hi, lo % LIMB>>)

\* rest.parse::<u32>().is_ok(): an empty string, a character that is no
\* digit and a value above u32::MAX are errors; one leading "+" is accepted
parse_u32_is_ok(s) ==
    LET digits == IF s # << >> /\ s[1] = "+" THEN Tail(s) ELSE s
    IN  digits # << >> /\ ParseDigits(digits, 1, <<0, 0>>)

\* is_ephemeral_file
is_ephemeral_file(filename) ==
    LET rest == strip_prefix(filename, EphemeralPrefix)
    IN  IF rest # << >> THEN parse_u32_is_ok(rest[1]) ELSE FALSE

\* EphemeralFile::create up to the file name: the disambiguator is the value
\* of NEXT_FILENAME before the fetch_add
CreateName ==
    /\ names.created < MaxCreates
    /\ names' = [next |-> fetch_add_1(names.next),
                 filename |-> Filename(names.next),
                 created |-> names.created + 1]
    /\ UNCHANGED non_names_vars

\* the values of NEXT_FILENAME that the model starts from: 1 in a new
\* process, and in a process that has created files before a value below
\* 10^5, 2^16, 2^32, 2^48 and 2^64
CounterValues ==
    {<<0, 0, 0, 1>>, <<0, 0, 1, 34454>>, <<0, 0, 0, 65530>>, <<0, 0, 65535, 65530>>,
     <<0, 65535, 65535, 65530>>, <<65535, 65535, 65535, 65530>>}

InitNames ==
    /\ InitLayer /\ L0Idle /\ GcIdle /\ ResIdle /\ GateIdle /\ BlobIdle /\ JwkIdle /\ SaIdle
    /\ FlushIdle /\ GccIdle /\ LmIdle /\ ConcIdle
    /\ \E next \in CounterValues :
          names = [next |-> next, filename |-> << >>, created |-> 0]

NextNames == CreateName

SpecNames == InitNames /\ [][NextNames]_vars

\* C37: every file name that create has made is recognised by
\* is_ephemeral_file
C37_CreatedNamesAreEphemeral ==
    names.filename # << >> => is_ephemeral_file(names.filename)

-----------------------------------------------------------------------------
(***************************************************************************)
(* JwkCacheEntryLock (proxy/src/auth/backend/jwt.rs): check_jwt calls of   *)
(* several connections on one cache entry, the renewals they run and the   *)
(* background renewals they spawn.  Task c in 1..MaxCallers is a check_jwt *)
(* call, task MaxCallers + c the renewal that call c has spawned.  The key *)
(* sets of an entry are reduced to whether they hold the key id of the     *)
(* token.  Time is measured in seconds at the ages that the code compares: *)
(* an age moves from one of the values of Ages to the next.                *)
(***************************************************************************)

\* the check_jwt calls on one entry
MaxCallers == 2

MIN_RENEW == 30
AUTO_RENEW == 300
MAX_RENEW == 3600

\* the age below which renew_jwks hands back the cached entry
RENEW_DOUBLE_CHECK == 300

\* the ages told apart by the comparisons of the code, in seconds
Ages == <<0, 31, 300, 301, 3601>>

\* the age that follows age a as time passes
LaterAge(a) ==
    LET i == CHOOSE i \in 1..Len(Ages) : Ages[i] = a
    IN  IF i < Len(Ages) THEN Ages[i + 1] ELSE a

JwkCallers == 1..MaxCallers

JwkTasks == 1..(2 * MaxCallers)

\* the background renewal that call c spawns
Spawned(c) == MaxCallers + c

\* JwkCacheEntry::find_jwk_and_audience: whether a key set holds the key id
find_jwk_and_audience(entry) == entry.has_kid

\* Semaphore::try_acquire and Semaphore::acquire succeed when a permit is
\* available; the permit is forgotten, so the semaphore keeps one permit less
try_acquire_permit(permits) ==
    IF permits > 0 THEN [inner |-> "borrowed", permits |-> permits - 1]
    ELSE [inner |-> "none", permits |-> permits]

\* Drop for JwkRenewalPermit: a permit goes back unless inner is None
drop_renewal_permit(inner, permits) ==
    IF inner = "none" THEN permits ELSE permits + 1

into_owned_NoTake(inner) == [owned |-> "owned", left |-> inner]

\* JwkRenewalPermit::into_owned: inner.take() moves the permit to the new
\* value and leaves None in the old one, which is dropped on return
into_owned(inner) ==
    [owned |-> IF inner = "none" THEN "none" ELSE "owned", left |-> "none"]

\* check_jwt up to the loop, with get_or_update_jwk_cache: without a cached
\* entry and with one older than MAX_RENEW the call waits for a permit; with
\* one older than AUTO_RENEW it spawns a renewal if it gets a permit
CheckJwt(c) ==
    /\ jwk.tasks[c].pc = "idle"
    /\ IF jwk.cached = << >> \/ jwk.cached[1].age > MAX_RENEW
       THEN jwk' = [jwk EXCEPT !.tasks[c].pc = "acquire"]
       ELSE IF jwk.cached[1].age > AUTO_RENEW
       THEN LET got == try_acquire_permit(jwk.permits)
                moved == into_owned(got.inner)
            IN  jwk' = [jwk EXCEPT
                   !.permits = drop_renewal_permit(moved.left, got.permits),
                   !.tasks[c].pc = "loop",
                   !.tasks[c].guard = jwk.cached,
                   !.tasks[Spawned(c)].pc = IF got.inner = "none" THEN "idle" ELSE "renew",
                   !.tasks[Spawned(c)].permit = IF got.inner = "none" THEN "none"
                                                ELSE moved.owned]
       ELSE jwk' = [jwk EXCEPT !.tasks[c].pc = "loop", !.tasks[c].guard = jwk.cached]
    /\ UNCHANGED non_jwk_vars

\* self.acquire_permit().await: the call goes on when it has the permit
AcquirePermit(c) ==
    /\ jwk.tasks[c].pc = "acquire"
    /\ jwk.permits > 0
    /\ jwk' = [jwk EXCEPT !.permits = @ - 1,
                          !.tasks[c].permit = "borrowed",
                          !.tasks[c].pc = "renew"]
    /\ UNCHANGED non_jwk_vars

\* the return of renew_jwks in task t: _permit is dropped; a check_jwt call
\* goes on with the entry in its loop, or returns the error; a spawned task
\* ends
RenewReturns(t, entry, ok) ==
    [jwk EXCEPT !.permits = drop_renewal_permit(jwk.tasks[t].permit, @),
                !.tasks[t].permit = "none",
                !.tasks[t].elapsed = 0,
                !.tasks[t].guard = IF t \in JwkCallers /\ ok THEN entry ELSE << >>,
                !.tasks[t].pc = IF t \in JwkCallers /\ ok THEN "loop" ELSE "done",
                !.tasks[t].result = IF ok THEN jwk.tasks[t].result ELSE "Err(fetch)"]

\* renew_jwks up to the fetch: the double check of the cached entry
RenewJwks(t) ==
    /\ jwk.tasks[t].pc = "renew"
    /\ IF jwk.cached # << >> /\ jwk.cached[1].age < RENEW_DOUBLE_CHECK
       THEN jwk' = RenewReturns(t, jwk.cached, TRUE)
       ELSE jwk' = [jwk EXCEPT !.tasks[t].pc = "fetch", !.tasks[t].elapsed = 0]
    /\ UNCHANGED non_jwk_vars

\* renew_jwks from the fetch on: fetch_auth_rules fails and the error is
\* returned, or the key sets that could be fetched are stored with the
\* instant taken at the beginning of renew_jwks
FetchJwks(t) ==
    /\ jwk.tasks[t].pc = "fetch"
    /\ \E rules_ok \in BOOLEAN, has_kid \in BOOLEAN :
          IF ~rules_ok
          THEN /\ ~has_kid
               /\ jwk' = RenewReturns(t, << >>, FALSE)
          ELSE LET entry == <<[age |-> jwk.tasks[t].elapsed, has_kid |-> has_kid]>>
               IN  jwk' = [RenewReturns(t, entry, TRUE) EXCEPT !.cached = entry]
    /\ UNCHANGED non_jwk_vars

\* one iteration of the loop of check_jwt on guard: the key is found and the
\* call goes on to verify the token, or the entry is older than MIN_RENEW
\* and the call renews it, or the call fails with "jwk not found"
LookupJwk(c) ==
    /\ jwk.tasks[c].pc = "loop"
    /\ IF find_jwk_and_audience(jwk.tasks[c].guard[1])
       THEN jwk' = [jwk EXCEPT !.tasks[c].pc = "done", !.tasks[c].result = "verify"]
       ELSE IF jwk.tasks[c].guard[1].age > MIN_RENEW
       THEN jwk' = [jwk EXCEPT !.tasks[c].pc = "acquire"]
       ELSE jwk' = [jwk EXCEPT !.tasks[c].pc = "done",
                               !.tasks[c].result = "Err(jwk not found)"]
    /\ UNCHANGED non_jwk_vars

\* an age with time passed
Aged(entry) == IF entry = << >> THEN << >> ELSE <<[entry[1] EXCEPT !.age = LaterAge(@)]>>

\* time passes: Instant::now() and elapsed() give a later value
TimePasses ==
    /\ jwk' = [jwk EXCEPT
          !.cached = Aged(@),
          !.tasks = [t \in JwkTasks |->
                       [jwk.tasks[t] EXCEPT
                          !.guard = Aged(@),
                          !.elapsed = IF jwk.tasks[t].pc = "fetch" THEN LaterAge(@) ELSE @]]]
    /\ jwk' # jwk
    /\ UNCHANGED non_jwk_vars

\* an entry lock with all its permits, without a cached entry or with one
\* that an earlier renewal has stored
InitJwt ==
    /\ InitLayer /\ L0Idle /\ GcIdle /\ ResIdle /\ GateIdle /\ BlobIdle /\ SaIdle
    /\ FlushIdle /\ GccIdle /\ LmIdle /\ ConcIdle /\ NamesIdle
    /\ \E cached \in {<< >>} \cup {<<[age |-> 0, has_kid |-> h]>> : h \in BOOLEAN} :
          jwk = [permits |-> 1, cached |-> cached, tasks |-> [t \in JwkTasks |-> NoTask]]

NextJwt ==
    \/ \E c \in JwkCallers : CheckJwt(c) \/ AcquirePermit(c) \/ LookupJwk(c)
    \/ \E t \in JwkTasks : RenewJwks(t) \/ FetchJwks(t)
    \/ TimePasses

SpecJwt == InitJwt /\ [][NextJwt]_vars

\* the tasks that hold a renewal permit
PermitHolders == {t \in JwkTasks : jwk.tasks[t].permit # "none"}

\* the tasks inside renew_jwks
Renewing == {t \in JwkTasks : jwk.tasks[t].pc \in {"renew", "fetch"}}

\* C40: for one entry lock the available permits are 0 or 1; the available
\* permits and the permits held make one, so a permit that was acquired is
\* given back once and the permits are 1 again when no renewal runs; the
\* tasks inside renew_jwks, called or spawned, are the holders of the
\* permit, so no two of them run at the same time
C40_OneRenewalPermitOutstanding ==
    /\ jwk.permits \in {0, 1}
    /\ jwk.permits + Cardinality(PermitHolders) = 1
    /\ Renewing = PermitHolders
    /\ Cardinality(Renewing) <= 1
    /\ (Renewing = {}) => jwk.permits = 1

\* a spawned renewal fetches with the permit that into_owned has moved to
\* it, while another call waits for the permit
C40_Witness ==
    /\ jwk.permits = 0
    /\ \E c \in JwkCallers :
          /\ jwk.tasks[Spawned(c)].pc = "fetch"
          /\ jwk.tasks[Spawned(c)].permit = "owned"
          /\ jwk.tasks[c].pc \in {"loop", "done"}
          /\ \E d \in JwkCallers \ {c} : jwk.tasks[d].pc = "acquire"

\* the steps that a task takes without waiting
RunsOn(t) ==
    \/ t \in JwkCallers /\ (CheckJwt(t) \/ LookupJwk(t))
    \/ RenewJwks(t)
    \/ FetchJwks(t)

\* the runtime polls every task that can go on, the fetches come to an end,
\* and the semaphore hands its permit to the waiting calls in turn; the
\* time that the steps of a task take is not bounded from below
JwtFairness ==
    /\ \A t \in JwkTasks : WF_vars(RunsOn(t))
    /\ \A c \in JwkCallers : SF_vars(AcquirePermit(c))

SpecJwtLive == InitJwt /\ [][NextJwt]_vars /\ JwtFairness

\* C39: a check_jwt call that has begun returns
C39_CheckJwtTerminates ==
    \A c \in JwkCallers : (jwk.tasks[c].pc # "idle") ~> (jwk.tasks[c].pc = "done")

=============================================================================
